---- MODULE Spec2Model ----
(***************************************************************************)
(* GST reconciliation: the MongoDB -> Neo4j graph projection               *)
(* (backend/graph_sync.py) and the reconciliation / risk queries           *)
(* (backend/routes/*.py).                                                   *)
(*                                                                         *)
(* Conventions of the model                                                *)
(*  - A document is a record holding every key its collection can carry;   *)
(*    a key the Python dict lacks holds Absent (AbsentV for a monetary      *)
(*    field, AbsentDate for a date field).                                  *)
(*  - A monetary field is [t, n]: t = "num" for a value float() accepts,    *)
(*    with n its value in units of 1/10000; t = "text" for a string         *)
(*    float() rejects; t = "absent" for a missing key.  Graph properties    *)
(*    that hold numbers use the same shape, with t = "null" for a property  *)
(*    that was never set.                                                   *)
(*  - A date field is the tuple of the '-'-separated parts of its text:     *)
(*    "2026-01-19" is <<"2026", "01", "19">>, "" is <<>>.                   *)
(*  - A graph property that was never set holds Null.                       *)
(***************************************************************************)
EXTENDS Integers, Sequences, FiniteSets, TLC

VARIABLES
    db,       \* the document store: one sequence of documents per collection
    graph,    \* the property graph: nodes per label, relationships
    pc,       \* sync_graph: the step about to run ("idle" before a run, "done" after)
    cur,      \* sync_graph: the locals of the step in progress
    steps,    \* sync_graph: the report's steps list
    status,   \* sync_graph: the report's status
    runs,     \* number of sync_graph runs started
    prev,     \* the graph when the current run started, and whether the run before it was clean
    resp,     \* the response of the last query endpoint called
    neo4j_driver,  \* database.py: the global _neo4j_driver (0 for None)
    drivers,       \* the driver objects GraphDatabase.driver has created
    callers,       \* the threads inside get_neo4j_driver
    closer,        \* close_connections: its position, and the calls completed
    files,         \* ingestion.py: the content of each file of FILES_DIR
    ingestion_log, \* the _ingestion_log collection: one entry per ingested file
    report         \* the report of the last ingest_all_files

connections == <<neo4j_driver, drivers, callers, closer>>

ingestion == <<files, ingestion_log, report>>

vars == <<db, graph, pc, cur, steps, status, runs, prev, resp, connections, ingestion>>

----------------------------------------------------------------------------
(* Bounds *)

MaxDocs == 2        \* documents in the store of the projection runs
MaxRuns == 2        \* sync_graph runs in one behaviour
BatchSize == 1      \* records per batch (BATCH_SIZE is 50 in the source)

----------------------------------------------------------------------------
(* Values *)

Absent == "<absent>"
Null == "<null>"
AbsentDate == <<Absent>>
NullDate == <<Null>>

NumV(n) == [t |-> "num", n |-> n]
TextV == [t |-> "text", n |-> 0]
AbsentV == [t |-> "absent", n |-> 0]
NullV == [t |-> "null", n |-> 0]

\* d.get(key, default): the value of the key, the default when the dict lacks it
Get(v, default) == IF v = Absent THEN default ELSE v
GetDate(v, default) == IF v = AbsentDate THEN default ELSE v

\* _safe_float / _to_float: float(val), and the default (0.0) when float() raises
SafeFloat(v) == IF v.t = "num" THEN NumV(v.n) ELSE NumV(0)

MonthAbbr ==
    [m \in {"01", "02", "03", "04", "05", "06", "07", "08", "09", "10", "11", "12"} |->
        CASE m = "01" -> "Jan" [] m = "02" -> "Feb" [] m = "03" -> "Mar"
          [] m = "04" -> "Apr" [] m = "05" -> "May" [] m = "06" -> "Jun"
          [] m = "07" -> "Jul" [] m = "08" -> "Aug" [] m = "09" -> "Sep"
          [] m = "10" -> "Oct" [] m = "11" -> "Nov" [] m = "12" -> "Dec"]

\* strftime("%m") in place of "%b": the month number
DeriveMonth_number(d) ==
    IF Len(d) = 3 /\ d[1] \in {"2025", "2026"} /\ d[2] \in DOMAIN MonthAbbr
                  /\ d[3] \in {"01", "03", "19", "25", "28"}
    THEN d[2]
    ELSE "Unknown"

\* _derive_month: strptime(date_str.strip(), "%Y-%m-%d").strftime("%b"), "Unknown" on failure
DeriveMonth(d) ==
    IF Len(d) = 3 /\ d[1] \in {"2025", "2026"} /\ d[2] \in DOMAIN MonthAbbr
                  /\ d[3] \in {"01", "03", "19", "25", "28"}
    THEN MonthAbbr[d[2]]
    ELSE "Unknown"

\* The strings of the model in code-point order: Python's and Cypher's < on strings
Lexicon == <<"", "EWB1", "EWB2", "G1", "G2", "G3", "INV1", "INV2", "INV3",
             "INV4", "INV5", "INV6", "N/A">>

StrRank(s) == CHOOSE i \in 1..Len(Lexicon) : Lexicon[i] = s
StrLess(a, b) == StrRank(a) < StrRank(b)

\* bool(x) of a string field read with .get(): false for a missing key and for ""
Truthy(v) == v # Absent /\ v # ""

----------------------------------------------------------------------------
(* Documents *)

TaxpayerDoc(gstin, risk, ip, phone) ==
    [GSTIN |-> gstin, Name |-> "Acme", Risk_Category |-> risk,
     IP_Address |-> ip, Phone |-> phone]

InvoiceDoc(id, seller, buyer, value) ==
    [Invoice_ID |-> id, Value |-> value, Invoice_Date |-> <<"2026", "01", "03">>,
     Seller_GSTIN |-> seller, Buyer_GSTIN |-> buyer]

Gstr1Doc(seller, buyer, id, st, date) ==
    [Seller_GSTIN |-> seller, Buyer_GSTIN |-> buyer, Invoice_ID |-> id,
     Status |-> st, Filing_Date |-> date, Tax |-> NumV(180000)]

Gstr2bDoc(id, buyer, seller, elig, value) ==
    [Invoice_ID |-> id, Buyer_GSTIN |-> buyer, Seller_GSTIN |-> seller,
     ITC_Eligible |-> elig, Tax |-> NumV(180000), Value |-> value]

Gstr3bDoc(seller, month, paid) ==
    [Seller_GSTIN |-> seller, Month |-> month, Tax_Paid |-> NumV(180000),
     Payment_Confirmed |-> paid]

EWayBillDoc(no, id) ==
    [EWayBill_No |-> no, Invoice_ID |-> id, Seller_GSTIN |-> "G1",
     Buyer_GSTIN |-> "G2", Value |-> NumV(10000000), Distance |-> TextV,
     Date |-> <<"2026", "01", "03">>]

PurchaseDoc(buyer, id, value) ==
    [Buyer_GSTIN |-> buyer, Invoice_ID |-> id, Value_Claimed |-> value,
     Tax_Claimed |-> AbsentV, Claim_Date |-> AbsentDate]

Collections == {"Taxpayers", "Invoices", "GSTR1", "GSTR2B", "GSTR3B",
                "EWayBill", "Purchase_Register"}

EmptyDb == [c \in Collections |-> <<>>]

----------------------------------------------------------------------------
(* database.py: the graph driver before its first use *)

\* the worker threads (asyncio.to_thread) that call get_neo4j_driver
Threads == {"t1", "t2"}

\* _neo4j_driver = None, no driver created, no call in progress
NoConnections ==
    /\ neo4j_driver = 0
    /\ drivers = <<>>
    /\ callers = [t \in Threads |-> [pc |-> "idle", made |-> 0, got |-> 0, during |-> 0]]
    /\ closer = [pc |-> "idle", done |-> 0]

\* ingestion.py: FILES_DIR holds no file and nothing has been ingested
EmptyReport(found) ==
    [files_found |-> found, files_ingested |-> 0, files_skipped_unchanged |-> 0,
     files_skipped_error |-> 0, details |-> <<>>]

NoIngestion ==
    /\ files = <<>>
    /\ ingestion_log = <<>>
    /\ report = EmptyReport(0)

----------------------------------------------------------------------------
(* The property graph *)

TaxpayerNull == [name |-> Null, risk_category |-> Null, ip_address |-> Null,
                 phone |-> Null]

InvoiceNull ==
    [value |-> NullV, invoice_date |-> NullDate, seller_gstin |-> Null,
     buyer_gstin |-> Null, gstr1_status |-> Null, gstr1_filing_date |-> NullDate,
     gstr1_tax |-> NullV, gstr2b_itc_eligible |-> Null,
     gstr2b_buyer_gstin |-> Null, gstr2b_tax |-> NullV]

ReturnNull ==
    [type |-> Null, gstin |-> Null, period |-> Null, status |-> Null,
     filing_date |-> NullDate, tax_paid |-> NullV, payment_confirmed |-> Null]

EWayBillNull ==
    [value |-> NullV, distance |-> NullV, date |-> NullDate,
     seller_gstin |-> Null, buyer_gstin |-> Null]

\* A relationship: mult is the number of parallel relationships of this type
\* between the two nodes; the properties are those of CLAIMED_ITC.
RelNull == [mult |-> 1, value_claimed |-> NullV, tax_claimed |-> NullV,
            claim_date |-> NullDate]

EmptyGraph ==
    [Taxpayer |-> <<>>, Invoice |-> <<>>, Return |-> <<>>, EWayBill |-> <<>>,
     rel |-> <<>>]

NullProps(label) ==
    CASE label = "Taxpayer" -> TaxpayerNull
      [] label = "Invoice" -> InvoiceNull
      [] label = "Return" -> ReturnNull
      [] label = "EWayBill" -> EWayBillNull

\* MERGE (n:Label {key: k}): the node is created, with no other property, if absent
MergeNode(g, label, k) ==
    IF k \in DOMAIN g[label] THEN g
    ELSE [g EXCEPT ![label] = (k :> NullProps(label)) @@ @]

\* CREATE instead of MERGE: one more parallel relationship on every write
CreateRel(g, type, src, dst) ==
    LET e == <<type, src, dst>>
    IN IF e \in DOMAIN g.rel
       THEN [g EXCEPT !.rel[e].mult = @ + 1]
       ELSE [g EXCEPT !.rel = (e :> RelNull) @@ @]

\* MERGE (a)-[:TYPE]->(b): the relationship is created if none joins a to b
MergeRel(g, type, src, dst) ==
    LET e == <<type, src, dst>>
    IN IF e \in DOMAIN g.rel THEN g
       ELSE [g EXCEPT !.rel = (e :> RelNull) @@ @]

----------------------------------------------------------------------------
(* graph_sync.py: the records each step builds from its documents *)

\* d["K"] raises KeyError for a key the document lacks
HasKeys(d, keys) == \A k \in keys : d[k] # Absent

RequiredKeys(step) ==
    CASE step = "Taxpayers" -> {"GSTIN"}
      [] step = "Invoices" -> {"Invoice_ID", "Seller_GSTIN", "Buyer_GSTIN"}
      [] step = "GSTR1" -> {"Seller_GSTIN", "Invoice_ID"}
      [] step = "GSTR2B" -> {"Invoice_ID", "Buyer_GSTIN"}
      [] step = "GSTR3B" -> {"Seller_GSTIN"}
      [] step = "EWayBill" -> {"EWayBill_No", "Invoice_ID"}
      [] step = "Purchase_Register" -> {"Buyer_GSTIN", "Invoice_ID"}

TaxpayerRec(d) ==
    [gstin |-> d.GSTIN, name |-> Get(d.Name, ""),
     risk_category |-> Get(d.Risk_Category, "UNKNOWN"),
     ip_address |-> Get(d.IP_Address, ""), phone |-> Get(d.Phone, "")]

InvoiceRec(d) ==
    [invoice_id |-> d.Invoice_ID, value |-> SafeFloat(d.Value),
     invoice_date |-> GetDate(d.Invoice_Date, <<>>),
     seller_gstin |-> d.Seller_GSTIN, buyer_gstin |-> d.Buyer_GSTIN]

\* One record per GSTR1 document; enrich_recs and return_recs are its two views.
Gstr1Rec(d) ==
    LET gstin == d.Seller_GSTIN
        filing_dt == GetDate(d.Filing_Date, <<>>)
        period == DeriveMonth(filing_dt)
    IN [return_id |-> "GSTR1_" \o gstin \o "_" \o period,
        gstin |-> gstin, period |-> period,
        status |-> Get(d.Status, "UNKNOWN"), filing_date |-> filing_dt,
        invoice_id |-> d.Invoice_ID, tax |-> SafeFloat(d.Tax)]

Gstr2bRec(d) ==
    [invoice_id |-> d.Invoice_ID, buyer_gstin |-> d.Buyer_GSTIN,
     itc_eligible |-> Get(d.ITC_Eligible, "NO"), tax |-> SafeFloat(d.Tax)]

Gstr3bRec(d) ==
    LET gstin == d.Seller_GSTIN
        month == Get(d.Month, "Unknown")
    IN [return_id |-> "GSTR3B_" \o gstin \o "_" \o month,
        gstin |-> gstin, period |-> month,
        tax_paid |-> SafeFloat(d.Tax_Paid),
        payment_confirmed |-> Get(d.Payment_Confirmed, "N")]

EWayBillRec(d) ==
    [ewaybill_no |-> d.EWayBill_No, invoice_id |-> d.Invoice_ID,
     seller_gstin |-> Get(d.Seller_GSTIN, ""), buyer_gstin |-> Get(d.Buyer_GSTIN, ""),
     value |-> SafeFloat(d.Value), distance |-> SafeFloat(d.Distance),
     date |-> GetDate(d.Date, <<>>)]

PurchaseRec(d) ==
    [buyer_gstin |-> d.Buyer_GSTIN, invoice_id |-> d.Invoice_ID,
     value_claimed |-> SafeFloat(d.Value_Claimed),
     tax_claimed |-> SafeFloat(d.Tax_Claimed),
     claim_date |-> GetDate(d.Claim_Date, <<>>)]

RecOf(step, d) ==
    CASE step = "Taxpayers" -> TaxpayerRec(d)
      [] step = "Invoices" -> InvoiceRec(d)
      [] step = "GSTR1" -> Gstr1Rec(d)
      [] step = "GSTR2B" -> Gstr2bRec(d)
      [] step = "GSTR3B" -> Gstr3bRec(d)
      [] step = "EWayBill" -> EWayBillRec(d)
      [] step = "Purchase_Register" -> PurchaseRec(d)

\* The except KeyError branch that forgets skipped += 1
CountSkipped_dropped(docs, step) == 0

\* skipped: the documents whose record raised KeyError
CountSkipped(docs, step) ==
    Len(SelectSeq(docs, LAMBDA d : ~HasKeys(d, RequiredKeys(step))))

\* A loop that ends at the first document that raises KeyError
BuildRecords_stops(docs, step) ==
    LET first == CHOOSE n \in 0..Len(docs) :
                    /\ \A i \in 1..n : HasKeys(docs[i], RequiredKeys(step))
                    /\ n < Len(docs) => ~HasKeys(docs[n + 1], RequiredKeys(step))
    IN [i \in 1..first |-> RecOf(step, docs[i])]

\* records: one per document that has its required keys, in document order
BuildRecords(docs, step) ==
    LET ok == SelectSeq(docs, LAMBDA d : HasKeys(d, RequiredKeys(step)))
    IN [i \in 1..Len(ok) |-> RecOf(step, ok[i])]

----------------------------------------------------------------------------
(* graph_sync.py: the Cypher of each step, applied to one row *)

TaxpayersQuery(g, row) ==
    LET g1 == MergeNode(g, "Taxpayer", row.gstin)
    IN [g1 EXCEPT !.Taxpayer[row.gstin] =
            [@ EXCEPT !.name = row.name, !.risk_category = row.risk_category,
                      !.ip_address = row.ip_address, !.phone = row.phone]]

InvoicesQuery(g, row) ==
    LET g1 == MergeNode(g, "Invoice", row.invoice_id)
        g2 == [g1 EXCEPT !.Invoice[row.invoice_id] =
                 [@ EXCEPT !.value = row.value, !.invoice_date = row.invoice_date,
                           !.seller_gstin = row.seller_gstin,
                           !.buyer_gstin = row.buyer_gstin]]
        g3 == MergeNode(g2, "Taxpayer", row.seller_gstin)
        g4 == MergeNode(g3, "Taxpayer", row.buyer_gstin)
        g5 == MergeRel(g4, "ISSUED", row.seller_gstin, row.invoice_id)
    IN MergeRel(g5, "BILLED_TO", row.invoice_id, row.buyer_gstin)

Gstr1EnrichQuery(g, row) ==
    LET g1 == MergeNode(g, "Invoice", row.invoice_id)
    IN [g1 EXCEPT !.Invoice[row.invoice_id] =
            [@ EXCEPT !.gstr1_status = row.status,
                      !.gstr1_filing_date = row.filing_date,
                      !.gstr1_tax = row.tax]]

Gstr1ReturnQuery(g, row) ==
    LET g1 == MergeNode(g, "Return", row.return_id)
        g2 == [g1 EXCEPT !.Return[row.return_id] =
                 [@ EXCEPT !.type = "GSTR1", !.gstin = row.gstin,
                           !.period = row.period, !.status = row.status,
                           !.filing_date = row.filing_date]]
        g3 == MergeNode(g2, "Taxpayer", row.gstin)
        g4 == MergeRel(g3, "FILED", row.gstin, row.return_id)
        g5 == MergeNode(g4, "Invoice", row.invoice_id)
    IN MergeRel(g5, "REPORTED_IN", row.invoice_id, row.return_id)

\* the WHERE row.itc_eligible = 'YES' left out: an edge for every row
Gstr2bQuery_every_row(g, row) ==
    LET g1 == MergeNode(g, "Invoice", row.invoice_id)
        g2 == [g1 EXCEPT !.Invoice[row.invoice_id] =
                 [@ EXCEPT !.gstr2b_itc_eligible = row.itc_eligible,
                           !.gstr2b_buyer_gstin = row.buyer_gstin,
                           !.gstr2b_tax = row.tax]]
    IN MergeRel(MergeNode(g2, "Taxpayer", row.buyer_gstin),
                "CLAIMED_ITC", row.buyer_gstin, row.invoice_id)

\* _sync_gstr2b: the enrichment, and the CLAIMED_ITC edge of an eligible row
Gstr2bQuery(g, row) ==
    LET g1 == MergeNode(g, "Invoice", row.invoice_id)
        g2 == [g1 EXCEPT !.Invoice[row.invoice_id] =
                 [@ EXCEPT !.gstr2b_itc_eligible = row.itc_eligible,
                           !.gstr2b_buyer_gstin = row.buyer_gstin,
                           !.gstr2b_tax = row.tax]]
    IN IF row.itc_eligible = "YES"
       THEN MergeRel(MergeNode(g2, "Taxpayer", row.buyer_gstin),
                     "CLAIMED_ITC", row.buyer_gstin, row.invoice_id)
       ELSE g2

Gstr3bQuery(g, row) ==
    LET g1 == MergeNode(g, "Return", row.return_id)
        g2 == [g1 EXCEPT !.Return[row.return_id] =
                 [@ EXCEPT !.type = "GSTR3B", !.gstin = row.gstin,
                           !.period = row.period, !.tax_paid = row.tax_paid,
                           !.payment_confirmed = row.payment_confirmed]]
        g3 == MergeNode(g2, "Taxpayer", row.gstin)
    IN MergeRel(g3, "FILED", row.gstin, row.return_id)

EWayBillQuery(g, row) ==
    LET g1 == MergeNode(g, "EWayBill", row.ewaybill_no)
        g2 == [g1 EXCEPT !.EWayBill[row.ewaybill_no] =
                 [@ EXCEPT !.value = row.value, !.distance = row.distance,
                           !.date = row.date, !.seller_gstin = row.seller_gstin,
                           !.buyer_gstin = row.buyer_gstin]]
        g3 == MergeNode(g2, "Invoice", row.invoice_id)
    IN MergeRel(g3, "HAS_EWAYBILL", row.invoice_id, row.ewaybill_no)

PurchaseQuery(g, row) ==
    LET g1 == MergeNode(g, "Taxpayer", row.buyer_gstin)
        g2 == MergeNode(g1, "Invoice", row.invoice_id)
        g3 == MergeRel(g2, "CLAIMED_ITC", row.buyer_gstin, row.invoice_id)
        e == <<"CLAIMED_ITC", row.buyer_gstin, row.invoice_id>>
    IN [g3 EXCEPT !.rel[e] =
            [@ EXCEPT !.value_claimed = row.value_claimed,
                      !.tax_claimed = row.tax_claimed,
                      !.claim_date = row.claim_date]]

RowQuery(q, g, row) ==
    CASE q = "Taxpayers" -> TaxpayersQuery(g, row)
      [] q = "Invoices" -> InvoicesQuery(g, row)
      [] q = "GSTR1" -> Gstr1EnrichQuery(g, row)
      [] q = "GSTR1_returns" -> Gstr1ReturnQuery(g, row)
      [] q = "GSTR2B" -> Gstr2bQuery(g, row)
      [] q = "GSTR3B" -> Gstr3bQuery(g, row)
      [] q = "EWayBill" -> EWayBillQuery(g, row)
      [] q = "Purchase_Register" -> PurchaseQuery(g, row)

\* _neo4j_batch: UNWIND $batch AS row, the query applied to the rows in order
RECURSIVE Neo4jBatch(_, _, _)
Neo4jBatch(g, q, batch) ==
    IF batch = <<>> THEN g
    ELSE Neo4jBatch(RowQuery(q, g, Head(batch)), q, Tail(batch))

\* The WHERE that compares the gstin alone
LinkPairs_gstin_only(g) ==
    {<<a, b>> \in (DOMAIN g.Return) \X (DOMAIN g.Return) :
        /\ g.Return[a].type = "GSTR1" /\ g.Return[b].type = "GSTR3B"
        /\ g.Return[a].gstin = g.Return[b].gstin}

\* _link_gstr1_to_gstr3b: the (g1, g3) pairs its MATCH ... WHERE selects
LinkPairs(g) ==
    {<<a, b>> \in (DOMAIN g.Return) \X (DOMAIN g.Return) :
        /\ g.Return[a].type = "GSTR1" /\ g.Return[b].type = "GSTR3B"
        /\ g.Return[a].gstin = g.Return[b].gstin
        /\ g.Return[a].period = g.Return[b].period}

RECURSIVE MergeRels(_, _, _)
MergeRels(g, type, pairs) ==
    IF pairs = {} THEN g
    ELSE LET p == CHOOSE x \in pairs : TRUE
         IN MergeRels(MergeRel(g, type, p[1], p[2]), type, pairs \ {p})

\* _link_gstr1_to_gstr3b: MERGE (g1)-[:SUMMARIZED_IN]->(g3) for every selected pair
LinkQuery(g) == MergeRels(g, "SUMMARIZED_IN", LinkPairs(g))

----------------------------------------------------------------------------
(* graph_sync.py: sync_graph, one action per await *)

\* The linking step called before _sync_gstr3b
StepOrder_links_early == <<"Constraints", "Taxpayers", "Invoices", "GSTR1", "GSTR2B",
                           "Linking", "GSTR3B", "EWayBill", "Purchase_Register">>

\* sync_graph: the calls in the order of the try block
StepOrder == <<"Constraints", "Taxpayers", "Invoices", "GSTR1", "GSTR2B",
               "GSTR3B", "Linking", "EWayBill", "Purchase_Register">>

StepIndex(s) == CHOOSE i \in 1..Len(StepOrder) : StepOrder[i] = s

\* The "step" name each step reports
StepLabel(s) ==
    CASE s = "Constraints" -> "Constraints"
      [] s = "Taxpayers" -> "Taxpayers"
      [] s = "Invoices" -> "Invoices + ISSUED/BILLED_TO"
      [] s = "GSTR1" -> "GSTR1 -> Returns + enrichment"
      [] s = "GSTR2B" -> "GSTR2B -> ITC enrichment"
      [] s = "GSTR3B" -> "GSTR3B -> Return nodes + FILED"
      [] s = "Linking" -> "GSTR1 <-> GSTR3B linking (SUMMARIZED_IN)"
      [] s = "EWayBill" -> "EWayBills + HAS_EWAYBILL"
      [] s = "Purchase_Register" -> "Purchase_Register -> CLAIMED_ITC"

IdleCur == [phase |-> "read", query |-> Null, records |-> <<>>, offset |-> 0,
            read |-> 0, skipped |-> 0, written |-> 0, errors |-> 0,
            w1 |-> 0, e1 |-> 0]

\* The dict a _sync_* step returns
StepReport(s, c) ==
    IF s = "GSTR1"
    THEN [step |-> StepLabel(s), read |-> c.read, enriched |-> c.w1,
          returns_written |-> c.written, skipped |-> c.skipped,
          batch_errors |-> c.e1 + c.errors]
    ELSE [step |-> StepLabel(s), read |-> c.read, written |-> c.written,
          skipped |-> c.skipped, batch_errors |-> c.errors]

NoBatchErrors(st) ==
    \A i \in 1..Len(st) : "batch_errors" \in DOMAIN st[i] => st[i].batch_errors = 0

\* chunk = records[i : i + batch_size]
Chunk(c) ==
    SubSeq(c.records, c.offset + 1,
           IF c.offset + BatchSize < Len(c.records) THEN c.offset + BatchSize
           ELSE Len(c.records))

\* A run that begins by emptying the graph (a full refresh)
StartSync_clears ==
    /\ pc \in {"idle", "done"}
    /\ runs < MaxRuns
    /\ pc' = "Constraints"
    /\ steps' = <<>>
    /\ status' = Null
    /\ cur' = IdleCur
    /\ runs' = runs + 1
    /\ prev' = [graph |-> graph,
                clean |-> pc = "done" /\ status = "completed" /\ NoBatchErrors(steps)]
    /\ graph' = EmptyGraph
    /\ UNCHANGED <<ingestion, connections, db, resp>>

\* sync_graph is called: the run begins; prev keeps the graph it starts from
StartSync ==
    /\ pc \in {"idle", "done"}
    /\ runs < MaxRuns
    /\ pc' = "Constraints"
    /\ steps' = <<>>
    /\ status' = Null
    /\ cur' = IdleCur
    /\ runs' = runs + 1
    /\ prev' = [graph |-> graph,
                clean |-> pc = "done" /\ status = "completed" /\ NoBatchErrors(steps)]
    /\ UNCHANGED <<ingestion, connections, db, graph, resp>>

\* _ensure_constraints: errors of the statements are swallowed
EnsureConstraints ==
    /\ pc = "Constraints"
    /\ steps' = Append(steps, [step |-> "Constraints", status |-> "ok"])
    /\ pc' = "Taxpayers"
    /\ UNCHANGED <<ingestion, connections, db, graph, cur, status, runs, prev, resp>>

\* docs = await db.X.find(...).to_list(None), and the loop that builds the records
ReadDocs ==
    /\ pc \in Collections
    /\ cur.phase = "read"
    /\ cur' = [phase |-> "write", query |-> pc,
               records |-> BuildRecords(db[pc], pc), offset |-> 0,
               read |-> Len(db[pc]), skipped |-> CountSkipped(db[pc], pc),
               written |-> 0, errors |-> 0, w1 |-> 0, e1 |-> 0]
    /\ UNCHANGED <<ingestion, connections, db, graph, pc, steps, status, runs, prev, resp>>

\* _batch_write: a batch whose transaction commits
BatchWritten ==
    /\ pc \in Collections
    /\ cur.phase = "write"
    /\ cur.offset < Len(cur.records)
    /\ graph' = Neo4jBatch(graph, cur.query, Chunk(cur))
    /\ cur' = [cur EXCEPT !.written = @ + Len(Chunk(cur)), !.offset = @ + BatchSize]
    /\ UNCHANGED <<ingestion, connections, db, pc, steps, status, runs, prev, resp>>

\* A failing batch that ends the loop: the batches after it are not attempted
BatchFailed_aborts ==
    /\ pc \in Collections
    /\ cur.phase = "write"
    /\ cur.offset < Len(cur.records)
    /\ cur' = [cur EXCEPT !.errors = @ + Len(Chunk(cur)), !.offset = Len(cur.records)]
    /\ UNCHANGED <<ingestion, connections, db, graph, pc, steps, status, runs, prev, resp>>

\* _batch_write: a batch whose transaction raises; nothing of it is written
BatchFailed ==
    /\ pc \in Collections
    /\ cur.phase = "write"
    /\ cur.offset < Len(cur.records)
    /\ cur' = [cur EXCEPT !.errors = @ + Len(Chunk(cur)), !.offset = @ + BatchSize]
    /\ UNCHANGED <<ingestion, connections, db, graph, pc, steps, status, runs, prev, resp>>

\* _sync_gstr1: the first _batch_write returned (w1, e1); the second one starts
Gstr1SecondQuery ==
    /\ pc = "GSTR1"
    /\ cur.phase = "write"
    /\ cur.query = "GSTR1"
    /\ cur.offset >= Len(cur.records)
    /\ cur' = [cur EXCEPT !.query = "GSTR1_returns", !.offset = 0,
                          !.w1 = cur.written, !.e1 = cur.errors,
                          !.written = 0, !.errors = 0]
    /\ UNCHANGED <<ingestion, connections, db, graph, pc, steps, status, runs, prev, resp>>

\* A step returns its report; after the last one status = "completed"
StepReturns ==
    /\ pc \in Collections
    /\ cur.phase = "write"
    /\ pc = "GSTR1" => cur.query = "GSTR1_returns"
    /\ cur.offset >= Len(cur.records)
    /\ steps' = Append(steps, StepReport(pc, cur))
    /\ cur' = [cur EXCEPT !.phase = "read"]
    /\ IF pc = "Purchase_Register"
       THEN pc' = "done" /\ status' = "completed"
       ELSE pc' = StepOrder[StepIndex(pc) + 1] /\ status' = status
    /\ UNCHANGED <<ingestion, connections, db, graph, runs, prev, resp>>

\* _link_gstr1_to_gstr3b
LinkStep ==
    /\ pc = "Linking"
    /\ graph' = LinkQuery(graph)
    /\ steps' = Append(steps,
                  [step |-> StepLabel("Linking"),
                   relationships_created |->
                       Cardinality(DOMAIN graph'.rel) - Cardinality(DOMAIN graph.rel)])
    /\ pc' = "EWayBill"
    /\ UNCHANGED <<ingestion, connections, db, cur, status, runs, prev, resp>>

\* An except branch that undoes the writes of the run
Fatal_rollback ==
    /\ \/ pc \in {"Constraints", "Linking"}
       \/ pc \in Collections /\ cur.phase = "read"
    /\ steps' = Append(steps, [step |-> "FATAL", error |-> "exc"])
    /\ status' = "failed"
    /\ pc' = "done"
    /\ graph' = prev.graph
    /\ UNCHANGED <<ingestion, connections, db, cur, runs, prev, resp>>

\* except Exception: an exception escapes a step (the store is unreachable when
\* the step opens its session or reads its collection)
Fatal ==
    /\ \/ pc \in {"Constraints", "Linking"}
       \/ pc \in Collections /\ cur.phase = "read"
    /\ steps' = Append(steps, [step |-> "FATAL", error |-> "exc"])
    /\ status' = "failed"
    /\ pc' = "done"
    /\ UNCHANGED <<ingestion, connections, db, graph, cur, runs, prev, resp>>

Next ==
    \/ StartSync
    \/ EnsureConstraints
    \/ ReadDocs
    \/ BatchWritten
    \/ BatchFailed
    \/ Gstr1SecondQuery
    \/ StepReturns
    \/ LinkStep
    \/ Fatal

----------------------------------------------------------------------------
(* The document stores the runs start from *)

\* Every store that holds at most n of the documents of rows; rows is a set of
\* <<collection, document>> pairs.
RECURSIVE DbsOf(_, _)
DbsOf(rows, n) ==
    IF n = 0 THEN {EmptyDb}
    ELSE LET less == DbsOf(rows, n - 1)
         IN less \cup {[d EXCEPT ![r[1]] = Append(@, r[2])] : d \in less, r \in rows}

Jan19 == <<"2026", "01", "19">>
Jan25 == <<"2026", "01", "25">>

SyncRows ==
    {<<"Taxpayers", TaxpayerDoc("G1", "HIGH", "10.0.0.1", "")>>,
     <<"Taxpayers", TaxpayerDoc(Absent, Absent, Absent, Absent)>>,
     <<"Invoices", InvoiceDoc("INV1", "G1", "G2", NumV(10000000))>>,
     <<"Invoices", InvoiceDoc("INV1", Absent, "G2", TextV)>>,
     <<"Invoices", InvoiceDoc("INV2", "G1", "G2", TextV)>>,
     <<"GSTR1", Gstr1Doc("G1", "G2", "INV1", "FILED", Jan19)>>,
     <<"GSTR1", Gstr1Doc("G1", "G2", "INV2", "PENDING", Jan25)>>,
     <<"GSTR1", Gstr1Doc("G2", "G1", "INV1", Absent, <<"19/01/2026">>)>>,
     <<"GSTR1", Gstr1Doc("G1", "G2", Absent, "FILED", Jan19)>>,
     <<"GSTR2B", Gstr2bDoc("INV1", "G2", "G1", "YES", NumV(10000000))>>,
     <<"GSTR2B", Gstr2bDoc("INV1", "G2", "G1", "NO", NumV(10000000))>>,
     <<"GSTR2B", Gstr2bDoc(Absent, "G2", "G1", "YES", NumV(10000000))>>,
     <<"GSTR3B", Gstr3bDoc("G1", "Jan", "Y")>>,
     <<"GSTR3B", Gstr3bDoc("G1", "Feb", "N")>>,
     <<"GSTR3B", Gstr3bDoc("G2", Absent, Absent)>>,
     <<"GSTR3B", Gstr3bDoc(Absent, "Jan", "Y")>>,
     <<"EWayBill", EWayBillDoc("EWB1", "INV1")>>,
     <<"EWayBill", EWayBillDoc(Absent, "INV1")>>,
     <<"Purchase_Register", PurchaseDoc("G2", "INV1", NumV(10000000))>>,
     <<"Purchase_Register", PurchaseDoc("G2", Absent, TextV)>>}

NoResp == [kind |-> "none"]

Init ==
    /\ db \in DbsOf(SyncRows, MaxDocs)
    /\ graph = EmptyGraph
    /\ pc = "idle"
    /\ cur = IdleCur
    /\ steps = <<>>
    /\ status = Null
    /\ runs = 0
    /\ prev = [graph |-> EmptyGraph, clean |-> FALSE]
    /\ NoConnections
    /\ NoIngestion
    /\ resp = NoResp

Spec == Init /\ [][Next]_vars

----------------------------------------------------------------------------
(* Claims on the projection (Spec) *)

RunClean == pc = "done" /\ status = "completed" /\ NoBatchErrors(steps)

\* C1: a second full run right after a first one, every batch written in both,
\* leaves the graph as the first run left it: same nodes, same relationships
\* (none duplicated), same property values.
C1_Idempotent == (RunClean /\ prev.clean) => graph = prev.graph

C1_Witness ==
    /\ RunClean /\ prev.clean
    /\ DOMAIN graph.rel # {}
    /\ DOMAIN graph.Return # {}

ReportsOf(kind) == {i \in 1..Len(steps) : kind \in DOMAIN steps[i]}

\* C4: every report of a step that reads a collection satisfies
\* read = written + skipped + batch_errors, read being the number of documents
\* of the collection; the GSTR1 report satisfies it for each of its two queries
\* (enriched with e1, returns_written with e2); and while a step still has a
\* batch to write its report is not in the list.
C4_SkipAccounting ==
    /\ \A i \in ReportsOf("written") :
          /\ steps[i].read = Len(db[StepOrder[i]])
          /\ steps[i].read = steps[i].written + steps[i].skipped + steps[i].batch_errors
    /\ \A i \in ReportsOf("enriched") :
          /\ steps[i].read = Len(db.GSTR1)
          /\ 2 * steps[i].read = steps[i].enriched + steps[i].returns_written
                                   + 2 * steps[i].skipped + steps[i].batch_errors
          /\ steps[i].enriched + steps[i].skipped <= steps[i].read
          /\ steps[i].returns_written + steps[i].skipped <= steps[i].read
    /\ (pc = "GSTR2B" /\ cur.phase = "read") =>
          /\ steps[Len(steps)].enriched = cur.w1
          /\ steps[Len(steps)].returns_written = cur.written
          /\ steps[Len(steps)].read = cur.w1 + cur.skipped + cur.e1
          /\ steps[Len(steps)].read = cur.written + cur.skipped + cur.errors
    /\ pc \in Collections => Len(steps) = StepIndex(pc) - 1
    /\ (pc \in Collections /\ cur.phase = "write") =>
          cur.written + cur.errors =
              (IF cur.offset < Len(cur.records) THEN cur.offset ELSE Len(cur.records))

C4_Witness ==
    \E i \in ReportsOf("enriched") :
        /\ steps[i].skipped > 0
        /\ steps[i].enriched > 0
        /\ steps[i].batch_errors > 0

IsReturn(g, r, ty) == r \in DOMAIN g.Return /\ g.Return[r].type = ty

\* C8: after a run that ends completed, every GSTR1 return and GSTR3B return of
\* the graph with equal gstin and equal period are joined by SUMMARIZED_IN; and
\* in every state every SUMMARIZED_IN relationship goes from a GSTR1 return to a
\* GSTR3B return with the same gstin and period.
C8_SummarizedIn ==
    /\ (pc = "done" /\ status = "completed") =>
          \A a \in DOMAIN graph.Return, b \in DOMAIN graph.Return :
              ( /\ graph.Return[a].type = "GSTR1"
                /\ graph.Return[b].type = "GSTR3B"
                /\ graph.Return[a].gstin = graph.Return[b].gstin
                /\ graph.Return[a].period = graph.Return[b].period )
              => <<"SUMMARIZED_IN", a, b>> \in DOMAIN graph.rel
    /\ \A e \in DOMAIN graph.rel :
          e[1] = "SUMMARIZED_IN" =>
              /\ IsReturn(graph, e[2], "GSTR1")
              /\ IsReturn(graph, e[3], "GSTR3B")
              /\ graph.Return[e[2]].gstin = graph.Return[e[3]].gstin
              /\ graph.Return[e[2]].period = graph.Return[e[3]].period

C8_Witness ==
    /\ pc = "done" /\ status = "completed"
    /\ <<"SUMMARIZED_IN", "GSTR1_G1_Jan", "GSTR3B_G1_Jan">> \in DOMAIN graph.rel

HasFatal(st) == \E i \in 1..Len(st) : st[i].step = "FATAL"

\* The writes of a step that returned with no failed batch are in the graph:
\* writing its records again changes nothing.
StepWritesRemain(i) ==
    LET s == StepOrder[i]
        recs == BuildRecords(db[s], s)
    IN (s \in Collections /\ steps[i].batch_errors = 0) =>
          /\ Neo4jBatch(graph, s, recs) = graph
          /\ s = "GSTR1" => Neo4jBatch(graph, "GSTR1_returns", recs) = graph

\* C10: a run whose status is failed has stopped, its steps list is the reports
\* of the steps that returned, in order, followed by exactly one FATAL entry,
\* and the writes of the steps that returned are still in the graph; the status
\* is completed exactly when the list holds the nine step entries and no FATAL
\* entry; a run that ended without a FATAL entry is completed whatever batches
\* failed.
C10_Fatal ==
    /\ status = "failed" =>
          /\ pc = "done"
          /\ Len(steps) \in 1..Len(StepOrder)
          /\ steps[Len(steps)].step = "FATAL"
          /\ \A i \in 1..(Len(steps) - 1) :
                steps[i].step = StepLabel(StepOrder[i]) /\ StepWritesRemain(i)
    /\ status = "completed" <=> (Len(steps) = Len(StepOrder) /\ ~HasFatal(steps))
    /\ (pc = "done" /\ ~HasFatal(steps)) => status = "completed"
    /\ status \in {Null, "completed", "failed"}

C10_Witness ==
    /\ status = "failed"
    /\ Len(steps) > 3
    /\ DOMAIN graph.Invoice # {}
    /\ runs = 1

C10_WitnessBatchErrors ==
    /\ status = "completed"
    /\ ~NoBatchErrors(steps)

\* a step of the run has a batch left to write
BatchPending == pc \in Collections /\ cur.phase = "write" /\ cur.offset < Len(cur.records)

\* the step taken attempts the batch at the offset and stays in the same step:
\* either the rows of the batch are applied to the graph and counted as
\* written, or the graph is untouched and the rows are counted as errors
BatchAttempt ==
    /\ pc' = pc /\ steps' = steps /\ status' = status
    /\ cur'.phase = "write" /\ cur'.records = cur.records /\ cur'.query = cur.query
    /\ cur'.offset = cur.offset + BatchSize
    /\ \/ /\ graph' = Neo4jBatch(graph, cur.query, Chunk(cur))
          /\ cur'.written = cur.written + Len(Chunk(cur))
          /\ cur'.errors = cur.errors
       \/ /\ graph' = graph
          /\ cur'.written = cur.written
          /\ cur'.errors = cur.errors + Len(Chunk(cur))

\* the loop of the last query of a step is over
LoopOver ==
    /\ pc \in Collections /\ cur.phase = "write" /\ cur.offset >= Len(cur.records)
    /\ pc = "GSTR1" => cur.query = "GSTR1_returns"

\* C11: while a step has a batch left, whatever batches failed before, the next
\* thing the run does is attempt that batch: a batch that succeeds puts its
\* records in the graph, a batch that fails leaves the graph alone, and both
\* move on to the next batch of the same step.  When the loop is over the step
\* returns its report (no FATAL entry, the status does not become failed), the
\* report counts every record as written or as an error, and the run goes on
\* to the following step.
C11_BatchIsolation ==
    [][ /\ BatchPending => BatchAttempt
        /\ LoopOver =>
              /\ steps' = Append(steps, StepReport(pc, cur))
              /\ steps'[Len(steps')].step = StepLabel(pc)
              /\ cur.written + cur.errors = Len(cur.records)
              /\ status' # "failed"
              /\ graph' = graph
              /\ pc' = (IF pc = "Purchase_Register" THEN "done"
                        ELSE StepOrder[StepIndex(pc) + 1]) ]_vars

\* the first GSTR3B batch failed, the second one was written, and the run went
\* on to the end
C11_Witness ==
    /\ pc = "done" /\ status = "completed" /\ runs = 1
    /\ db.GSTR3B = <<Gstr3bDoc("G1", "Jan", "Y"), Gstr3bDoc("G1", "Feb", "N")>>
    /\ steps[6].batch_errors = 1 /\ steps[6].written = 1
    /\ DOMAIN graph.Return = {"GSTR3B_G1_Feb"}

\* the names of the report's entries, in the order the spec gives them
ReportOrder ==
    <<"Constraints", "Taxpayers", "Invoices + ISSUED/BILLED_TO",
      "GSTR1 -> Returns + enrichment", "GSTR2B -> ITC enrichment",
      "GSTR3B -> Return nodes + FILED", "GSTR1 <-> GSTR3B linking (SUMMARIZED_IN)",
      "EWayBills + HAS_EWAYBILL", "Purchase_Register -> CLAIMED_ITC">>

\* steps is a prefix of ReportOrder, optionally followed by FATAL
OrderedPrefix(st) ==
    \/ /\ Len(st) <= Len(ReportOrder)
       /\ \A i \in DOMAIN st : st[i].step = ReportOrder[i]
    \/ /\ st # <<>> /\ Len(st) <= Len(ReportOrder)
       /\ st[Len(st)].step = "FATAL"
       /\ \A i \in 1..(Len(st) - 1) : st[i].step = ReportOrder[i]

SummarizedIn(g) == {r \in DOMAIN g.rel : r[1] = "SUMMARIZED_IN"}

\* the step that is running is the one after the steps that have returned
RunsInOrder ==
    /\ OrderedPrefix(steps)
    /\ pc \notin {"idle", "done"} =>
          /\ Len(steps) = StepIndex(pc) - 1
          /\ \A i \in DOMAIN steps : steps[i].step = ReportOrder[i]
    /\ (pc = "done" /\ status = "completed") => Len(steps) = Len(ReportOrder)
    /\ pc = "Linking" => /\ Len(steps) = 6
                         /\ steps[4].step = "GSTR1 -> Returns + enrichment"
                         /\ steps[6].step = "GSTR3B -> Return nodes + FILED"

\* the report grows by one entry at a time, and SUMMARIZED_IN edges are written
\* by the seventh step only
OneStepAtATime ==
    /\ SummarizedIn(graph') # SummarizedIn(graph) =>
          /\ Len(steps) = 6 /\ Len(steps') = 7
          /\ steps[4].step = "GSTR1 -> Returns + enrichment"
          /\ steps[6].step = "GSTR3B -> Return nodes + FILED"
          /\ steps'[7].step = "GSTR1 <-> GSTR3B linking (SUMMARIZED_IN)"
    /\ (steps' # steps /\ steps' # <<>>) =>
          /\ Len(steps') = Len(steps) + 1
          /\ SubSeq(steps', 1, Len(steps)) = steps

\* C18: in every run the report's steps are a prefix of Constraints, Taxpayers,
\* Invoices, GSTR1, GSTR2B, GSTR3B, linking, EWayBills, Purchase_Register,
\* optionally followed by FATAL; the step that is running is the one after the
\* steps that have returned, so a step starts only when the previous one has
\* returned, and the linking step runs (and SUMMARIZED_IN edges are written)
\* only with the GSTR1 and the GSTR3B reports already in the list.
C18_StepOrder == []RunsInOrder /\ [][OneStepAtATime]_vars

\* a run that linked a GSTR1 return to a GSTR3B return and completed, and a run
\* that failed after the GSTR1 step
C18_Witness ==
    /\ pc = "done" /\ status = "completed" /\ Len(steps) = 9
    /\ steps[7].relationships_created = 1
    /\ SummarizedIn(graph) # {}

C18_WitnessFatal ==
    /\ pc = "done" /\ status = "failed" /\ Len(steps) = 5
    /\ steps[4].step = "GSTR1 -> Returns + enrichment" /\ steps[5].step = "FATAL"

\* the documents of a collection that carry the natural keys of its step
Keyed(c) == SelectSeq(db[c], LAMBDA d : HasKeys(d, RequiredKeys(c)))

\* C21: in every step a document that lacks a natural key of the step adds
\* exactly one to the step's skipped count and nothing to the graph, and the
\* other documents are still processed: in every report skipped is the number
\* of such documents, and after a first run that completes with no failed
\* batch written is the number of the others, the Invoice and EWayBill nodes
\* are exactly those the keyed documents name, and an invoice whose Value is
\* missing or not a number has value 0.0 (as has a claim's tax_claimed).
C21_ValidationSkip ==
    /\ \A i \in DOMAIN steps :
          "skipped" \in DOMAIN steps[i] =>
              steps[i].skipped = Len(db[StepOrder[i]]) - Len(Keyed(StepOrder[i]))
    /\ (pc = "done" /\ status = "completed" /\ runs = 1 /\ NoBatchErrors(steps)) =>
          /\ \A i \in ReportsOf("written") : steps[i].written = Len(Keyed(StepOrder[i]))
          /\ \A i \in ReportsOf("enriched") :
                steps[i].enriched = Len(Keyed("GSTR1")) /\ steps[i].returns_written = Len(Keyed("GSTR1"))
          /\ DOMAIN graph.Invoice =
                UNION {{Keyed(c)[i].Invoice_ID : i \in DOMAIN Keyed(c)} :
                          c \in {"Invoices", "GSTR1", "GSTR2B", "EWayBill", "Purchase_Register"}}
          /\ DOMAIN graph.EWayBill =
                {Keyed("EWayBill")[i].EWayBill_No : i \in DOMAIN Keyed("EWayBill")}
          /\ \A i \in DOMAIN Keyed("Invoices") :
                LET d == Keyed("Invoices")[i]
                IN (\A j \in DOMAIN Keyed("Invoices") :
                        j > i => Keyed("Invoices")[j].Invoice_ID # d.Invoice_ID) =>
                   graph.Invoice[d.Invoice_ID].value =
                       (IF d.Value.t = "num" THEN d.Value ELSE NumV(0))
          /\ \A i \in DOMAIN Keyed("Purchase_Register") :
                LET d == Keyed("Purchase_Register")[i]
                IN d.Tax_Claimed.t # "num" =>
                   graph.rel[<<"CLAIMED_ITC", d.Buyer_GSTIN, d.Invoice_ID>>].tax_claimed = NumV(0)

\* a run over an invoice without seller and an invoice whose Value is text: the
\* first is skipped, the second is written with value 0.0
C21_Witness ==
    /\ pc = "done" /\ status = "completed" /\ runs = 1 /\ NoBatchErrors(steps)
    /\ db.Invoices = <<InvoiceDoc("INV1", Absent, "G2", TextV),
                       InvoiceDoc("INV2", "G1", "G2", TextV)>>
    /\ steps[3].skipped = 1 /\ steps[3].written = 1
    /\ DOMAIN graph.Invoice = {"INV2"}
    /\ graph.Invoice["INV2"].value = NumV(0)

\* the CLAIMED_ITC edges that the documents of collection c ask for
ClaimsOf(c, eligible) ==
    {<<"CLAIMED_ITC", Keyed(c)[i].Buyer_GSTIN, Keyed(c)[i].Invoice_ID>> :
        i \in {k \in DOMAIN Keyed(c) :
                  c = "GSTR2B" => Get(Keyed(c)[k].ITC_Eligible, "NO") \in eligible}}

\* C26: in every state there is at most one CLAIMED_ITC edge for a (buyer,
\* invoice) pair, also when a GSTR2B row with ITC_Eligible YES and a
\* Purchase_Register row both name the pair; after a completed run from the
\* empty graph the CLAIMED_ITC edges are those of the eligible GSTR2B rows and
\* of the Purchase_Register rows, and an edge carries value_claimed,
\* tax_claimed and claim_date exactly when a Purchase_Register row names it.
C26_SingleClaim ==
    /\ \A e \in DOMAIN graph.rel : e[1] = "CLAIMED_ITC" => graph.rel[e].mult = 1
    /\ (RunClean /\ runs = 1) =>
          /\ {e \in DOMAIN graph.rel : e[1] = "CLAIMED_ITC"}
                = ClaimsOf("GSTR2B", {"YES"}) \cup ClaimsOf("Purchase_Register", {})
          /\ \A e \in ClaimsOf("GSTR2B", {"YES"}) \cup ClaimsOf("Purchase_Register", {}) :
                IF e \in ClaimsOf("Purchase_Register", {})
                THEN /\ graph.rel[e].value_claimed # NullV
                     /\ graph.rel[e].tax_claimed # NullV
                     /\ graph.rel[e].claim_date # NullDate
                ELSE /\ graph.rel[e].value_claimed = NullV
                     /\ graph.rel[e].tax_claimed = NullV
                     /\ graph.rel[e].claim_date = NullDate

\* an eligible GSTR2B row and a Purchase_Register row of the same pair
C26_Witness ==
    /\ RunClean /\ runs = 1
    /\ db.GSTR2B = <<Gstr2bDoc("INV1", "G2", "G1", "YES", NumV(10000000))>>
    /\ db.Purchase_Register = <<PurchaseDoc("G2", "INV1", NumV(10000000))>>
    /\ graph.rel[<<"CLAIMED_ITC", "G2", "INV1">>].mult = 1
    /\ graph.rel[<<"CLAIMED_ITC", "G2", "INV1">>].value_claimed = NumV(10000000)

\* an eligible GSTR2B row alone: the edge without the claimed amounts
C26_WitnessEligible ==
    /\ RunClean /\ runs = 1
    /\ db.GSTR2B = <<Gstr2bDoc("INV1", "G2", "G1", "YES", NumV(10000000))>>
    /\ db.Purchase_Register = <<>>
    /\ graph.rel[<<"CLAIMED_ITC", "G2", "INV1">>].value_claimed = NullV

\* the 3-letter month of a date of the form YYYY-MM-DD, Unknown for any other text
MonthOf(date) ==
    IF Len(date) # 3 THEN "Unknown"
    ELSE CASE date[2] = "01" -> "Jan" [] date[2] = "02" -> "Feb" [] OTHER -> "Unknown"

\* the Return nodes a completed run must hold for the keyed documents of c
ReturnsFor(c) ==
    {[type |-> c, gstin |-> Keyed(c)[i].Seller_GSTIN,
      period |-> IF c = "GSTR1" THEN MonthOf(Keyed(c)[i].Filing_Date)
                 ELSE Get(Keyed(c)[i].Month, "Unknown")] : i \in DOMAIN Keyed(c)}

ReturnKeys ==
    {[type |-> graph.Return[r].type, gstin |-> graph.Return[r].gstin,
      period |-> graph.Return[r].period] : r \in DOMAIN graph.Return}

\* C27: in every state every Return node has return_id = type_gstin_period
\* with type GSTR1 or GSTR3B; no GSTR1 record and GSTR3B record write the same
\* node; the period of a GSTR1 return is the 3-letter month of its Filing_Date,
\* Unknown when the date does not parse, and the period of a GSTR3B return is
\* its Month field, Unknown when the field is absent.
C27_ReturnKey ==
    /\ \A r \in DOMAIN graph.Return :
          /\ graph.Return[r].type \in {"GSTR1", "GSTR3B"}
          /\ r = graph.Return[r].type \o "_" \o graph.Return[r].gstin
                    \o "_" \o graph.Return[r].period
    /\ \A i \in DOMAIN Keyed("GSTR1"), j \in DOMAIN Keyed("GSTR3B") :
          Gstr1Rec(Keyed("GSTR1")[i]).return_id # Gstr3bRec(Keyed("GSTR3B")[j]).return_id
    /\ ReturnKeys \subseteq ReturnsFor("GSTR1") \cup ReturnsFor("GSTR3B")
    /\ RunClean => ReturnKeys = ReturnsFor("GSTR1") \cup ReturnsFor("GSTR3B")

\* a GSTR1 return of January, one whose date does not parse, and a GSTR3B
\* return of the same seller and month as the first
C27_Witness ==
    /\ RunClean
    /\ db.GSTR1 = <<Gstr1Doc("G2", "G1", "INV1", Absent, <<"19/01/2026">>)>>
    /\ db.GSTR3B = <<Gstr3bDoc("G2", Absent, Absent)>>
    /\ DOMAIN graph.Return = {"GSTR1_G2_Unknown", "GSTR3B_G2_Unknown"}

C27_WitnessJan ==
    /\ RunClean
    /\ DOMAIN graph.Return = {"GSTR1_G1_Jan", "GSTR3B_G1_Jan"}
    /\ graph.Return["GSTR1_G1_Jan"].period = "Jan"

----------------------------------------------------------------------------
(* _batch_write: the batches of one step, applied in any order *)

MaxBatchDocs == 2

\* records[i : i + batch_size] for i in range(0, len(records), batch_size),
\* each with the query it is run with
BatchesOf(q, records) ==
    [j \in 1..((Len(records) + BatchSize - 1) \div BatchSize) |->
        [query |-> q,
         chunk |-> SubSeq(records, (j - 1) * BatchSize + 1,
                          IF j * BatchSize < Len(records) THEN j * BatchSize
                          ELSE Len(records))]]

\* the batches of a step; _sync_gstr1 writes its records twice (enrich_q, return_q)
StepBatches(d, step) ==
    IF step = "GSTR1"
    THEN BatchesOf("GSTR1", BuildRecords(d.GSTR1, "GSTR1"))
             \o BatchesOf("GSTR1_returns", BuildRecords(d.GSTR1, "GSTR1"))
    ELSE BatchesOf(step, BuildRecords(d[step], step))

\* the orders in which n batches can be applied
Orders(n) == {o \in [1..n -> 1..n] : \A i, j \in 1..n : o[i] = o[j] => i = j}

RECURSIVE ApplyBatches(_, _, _)
ApplyBatches(g, batches, order) ==
    IF order = <<>> THEN g
    ELSE ApplyBatches(Neo4jBatch(g, batches[Head(order)].query, batches[Head(order)].chunk),
                      batches, Tail(order))

\* one step of the projection run on the empty graph with its batches in some order
ApplyStep ==
    /\ \E step \in Collections :
          \E order \in Orders(Len(StepBatches(db, step))) :
              /\ graph' = ApplyBatches(EmptyGraph, StepBatches(db, step), order)
              /\ resp' = [kind |-> "step", step |-> step, order |-> order]
    /\ UNCHANGED <<ingestion, connections, db, pc, cur, steps, status, runs, prev>>

BatchRows ==
    {<<"Taxpayers", TaxpayerDoc("G1", "HIGH", "10.0.0.1", "")>>,
     <<"Taxpayers", TaxpayerDoc("G1", "LOW", "10.0.0.1", "")>>,
     <<"Invoices", InvoiceDoc("INV1", "G1", "G2", NumV(10000000))>>,
     <<"Invoices", InvoiceDoc("INV1", "G3", "G2", NumV(10000000))>>,
     <<"GSTR1", Gstr1Doc("G1", "G2", "INV1", "FILED", Jan19)>>,
     <<"GSTR1", Gstr1Doc("G1", "G2", "INV2", "FILED", Jan19)>>,
     <<"GSTR1", Gstr1Doc("G1", "G2", "INV3", "PENDING", Jan25)>>,
     <<"GSTR2B", Gstr2bDoc("INV1", "G2", "G1", "YES", NumV(10000000))>>,
     <<"GSTR2B", Gstr2bDoc("INV1", "G2", "G1", "NO", NumV(10000000))>>,
     <<"GSTR3B", Gstr3bDoc("G1", "Jan", "Y")>>,
     <<"GSTR3B", Gstr3bDoc("G1", "Jan", "N")>>,
     <<"EWayBill", EWayBillDoc("EWB1", "INV1")>>,
     <<"EWayBill", EWayBillDoc("EWB1", "INV2")>>,
     <<"Purchase_Register", PurchaseDoc("G2", "INV1", NumV(10000000))>>,
     <<"Purchase_Register", PurchaseDoc("G2", "INV1", NumV(20000000))>>}

InitBatch ==
    /\ db \in DbsOf(BatchRows, MaxBatchDocs)
    /\ graph = EmptyGraph
    /\ pc = "idle"
    /\ cur = IdleCur
    /\ steps = <<>>
    /\ status = Null
    /\ runs = 0
    /\ prev = [graph |-> EmptyGraph, clean |-> FALSE]
    /\ NoConnections
    /\ NoIngestion
    /\ resp = NoResp

SpecBatch == InitBatch /\ [][ApplyStep]_vars

\* the graph the step leaves when its batches are applied in the order of the code
InOrder ==
    LET B == StepBatches(db, resp.step)
    IN ApplyBatches(EmptyGraph, B, [i \in 1..Len(B) |-> i])

\* the node or relationship whose properties a query SETs from a row
SetTarget(q, row) ==
    CASE q = "Taxpayers" -> <<"Taxpayer", row.gstin>>
      [] q \in {"Invoices", "GSTR1", "GSTR2B"} -> <<"Invoice", row.invoice_id>>
      [] q \in {"GSTR1_returns", "GSTR3B"} -> <<"Return", row.return_id>>
      [] q = "EWayBill" -> <<"EWayBill", row.ewaybill_no>>
      [] q = "Purchase_Register" -> <<"CLAIMED_ITC", row.buyer_gstin, row.invoice_id>>

\* the fields of the row the query SETs (the others are used in MERGE only)
SetFields(q, row) ==
    CASE q = "GSTR1" -> {"status", "filing_date", "tax"}
      [] q = "GSTR1_returns" -> {"gstin", "period", "status", "filing_date"}
      [] q = "EWayBill" -> DOMAIN row \ {"invoice_id"}
      [] OTHER -> DOMAIN row

\* records that SET the same node or relationship SET the same values
NoConflict ==
    LET B == StepBatches(db, resp.step)
    IN \A x, y \in UNION {{<<B[j].query, B[j].chunk[k]>> : k \in DOMAIN B[j].chunk} :
                               j \in DOMAIN B} :
          (x[1] = y[1] /\ SetTarget(x[1], x[2]) = SetTarget(y[1], y[2])) =>
              \A f \in SetFields(x[1], x[2]) : x[2][f] = y[2][f]

SameKeys(g, h) ==
    /\ \A l \in {"Taxpayer", "Invoice", "Return", "EWayBill"} : DOMAIN g[l] = DOMAIN h[l]
    /\ DOMAIN g.rel = DOMAIN h.rel
    /\ \A e \in DOMAIN g.rel : g.rel[e].mult = h.rel[e].mult

\* C19 as stated: the final graph (nodes, edges and all property values) of a
\* step is the same for every order of its batches, also when several records
\* map to the same graph key.
C19_Commutes == resp.kind = "step" => graph = InOrder

\* What does hold of C19: for every order of the batches the step leaves the
\* same node keys and the same edges; the property values too are the same when
\* the records that SET the same node or relationship SET the same values.
C19_BatchOrder ==
    resp.kind = "step" =>
        /\ SameKeys(graph, InOrder)
        /\ NoConflict => graph = InOrder

\* two GSTR1 rows of one seller and month, with equal status and date, written
\* with the return batches first and in reverse: one Return node, both invoices
C19_Witness ==
    /\ resp.kind = "step" /\ resp.step = "GSTR1" /\ resp.order = <<4, 3, 2, 1>>
    /\ DOMAIN graph.Return = {"GSTR1_G1_Jan"}
    /\ {<<"REPORTED_IN", "INV1", "GSTR1_G1_Jan">>, <<"REPORTED_IN", "INV2", "GSTR1_G1_Jan">>}
           \subseteq DOMAIN graph.rel
    /\ NoConflict /\ graph = InOrder

----------------------------------------------------------------------------
(* Runs over a store that changes between them *)

ResyncRows ==
    {<<"Taxpayers", TaxpayerDoc("G1", "HIGH", "10.0.0.1", "")>>,
     <<"Invoices", InvoiceDoc("INV1", "G1", "G2", NumV(10000000))>>,
     <<"Invoices", InvoiceDoc("INV1", "G3", "G2", NumV(10000000))>>,
     <<"GSTR1", Gstr1Doc("G1", "G2", "INV1", "FILED", Jan19)>>,
     <<"GSTR3B", Gstr3bDoc("G1", "Jan", "Y")>>,
     <<"EWayBill", EWayBillDoc("EWB1", "INV1")>>,
     <<"Purchase_Register", PurchaseDoc("G2", "INV1", NumV(10000000))>>}

\* the empty store and the stores that hold one of the documents
ResyncStores == {EmptyDb} \cup {[EmptyDb EXCEPT ![r[1]] = <<r[2]>>] : r \in ResyncRows}

\* ingest_all between two runs: documents are added, removed or replaced
Reingest ==
    /\ pc = "done"
    /\ runs < MaxRuns
    /\ db' \in ResyncStores \ {db}
    /\ UNCHANGED <<ingestion, connections, graph, pc, cur, steps, status, runs, prev, resp>>

InitResync ==
    /\ db \in ResyncStores
    /\ graph = EmptyGraph
    /\ pc = "idle"
    /\ cur = IdleCur
    /\ steps = <<>>
    /\ status = Null
    /\ runs = 0
    /\ prev = [graph |-> EmptyGraph, clean |-> FALSE]
    /\ NoConnections
    /\ NoIngestion
    /\ resp = NoResp

SpecResync == InitResync /\ [][Next \/ Reingest]_vars

NodeLabels == {"Taxpayer", "Invoice", "Return", "EWayBill"}

\* every node key and every edge (type, source, target) of g is in h
Kept(g, h) ==
    /\ \A l \in NodeLabels : DOMAIN g[l] \subseteq DOMAIN h[l]
    /\ DOMAIN g.rel \subseteq DOMAIN h.rel

\* C17: whatever the documents are when a run of sync_graph starts, every node
\* key and every edge (type, source, target) the graph had before the run is in
\* the graph at every point of the run and after it; no step of the engine
\* removes a node or an edge.
C17_NeverDeletes ==
    /\ runs >= 1 => Kept(prev.graph, graph)
    /\ pc = "idle" => graph = EmptyGraph

\* a second run has completed over an invoice whose seller was replaced, with
\* the taxpayer, return and e-way bill rows gone: the old seller's node and its
\* ISSUED edge are still in the graph beside the new ones
C17_Witness ==
    /\ pc = "done" /\ runs = 2 /\ status = "completed"
    /\ db = [EmptyDb EXCEPT !.Invoices = <<InvoiceDoc("INV1", "G3", "G2", NumV(10000000))>>]
    /\ <<"ISSUED", "G1", "INV1">> \in DOMAIN prev.graph.rel
    /\ {<<"ISSUED", "G1", "INV1">>, <<"ISSUED", "G3", "INV1">>} \subseteq DOMAIN graph.rel
    /\ {"G1", "G3"} \subseteq DOMAIN graph.Taxpayer

----------------------------------------------------------------------------
(* The reconciliation queries on the document store (backend/routes)       *)

\* float(text) is the double nearest to the decimal text.  FloatErr(n) is the
\* double's value minus the decimal n/10000, in units of 1/(100 * 2^59), for
\* the decimals of the model: 0.005, 0.01 (0.01000000000000000020816...),
\* 999.99, 1000.005, 1000.01 (1000.009999999999990905...), 1000.02, 49999.99,
\* 50000.01; the other decimals of the model (0, 1000, 50000, 60000) are doubles.
FloatErr(n) ==
    CASE n = 50 -> 6
      [] n = 100 -> 12
      [] n = 9999900 -> 524288
      [] n = 10000050 -> -262144
      [] n = 10000100 -> -524288
      [] n = 10000200 -> -1048576
      [] n = 499999900 -> -117440512
      [] n = 500000100 -> 117440512
      [] OTHER -> 0

\* abs(a - b) < tol on doubles.  The decimals of the model are 0 or lie within
\* a factor 2 of each other when they differ by tol, so the subtraction is
\* exact there; elsewhere the decimal difference is at least 0.005 away from
\* tol and the rounding of the subtraction (below 10^-11) cannot change the
\* comparison.
AbsDiffLess(a, b, tol) ==
    LET d == a.n - b.n
        e == FloatErr(a.n) - FloatErr(b.n)
        ad == IF d < 0 THEN -d ELSE d
        ae == IF d < 0 THEN -e ELSE e
    IN ad < tol \/ (ad = tol /\ ae < FloatErr(tol))

Tolerance == 100          \* 0.01
CaListLength == 5000      \* to_list(length=5000)
DashListLength == 1000    \* to_list(length=1000)
FraudListLength == 10000  \* to_list(length=10000)

\* cursor.to_list(length): the first length documents of the cursor
ToList(s, length) == IF Len(s) <= length THEN s ELSE SubSeq(s, 1, length)

\* find({"Buyer_GSTIN": gstin}): the documents whose Buyer_GSTIN is gstin, in store order
FindBuyer(rows, gstin) == SelectSeq(rows, LAMBDA r : r.Buyer_GSTIN = gstin)
FindInvoice(rows, inv_id) == SelectSeq(rows, LAMBDA r : r.Invoice_ID = inv_id)

\* None, and find_one: the first matching document or None
None == [none |-> TRUE]
FindOne(s) == IF s = <<>> THEN None ELSE s[1]

\* {doc["Invoice_ID"]: doc for doc in rows if doc.get("Invoice_ID")}: a later
\* row replaces an earlier row with the same Invoice_ID
DocMap(rows) ==
    LET keyed == {i \in DOMAIN rows : Truthy(rows[i].Invoice_ID)}
        n == Len(rows)
        \* the last row that carries id, looked for from the end
        back(id) == CHOOSE k \in 1..n :
                        /\ rows[n + 1 - k].Invoice_ID = id
                        /\ \A j \in (n + 2 - k)..n : rows[j].Invoice_ID # id
    IN [id \in {rows[i].Invoice_ID : i \in keyed} |-> rows[n + 1 - back(id)]]

\* sorted(set(...)) on strings
RECURSIVE Sorted(_)
Sorted(S) ==
    IF S = {} THEN <<>>
    ELSE LET m == CHOOSE x \in S : \A y \in S : ~StrLess(y, x)
         IN <<m>> \o Sorted(S \ {m})

\* all_inv_ids = sorted(set(pr_map.keys()) | set(g2b_map.keys()))
AllInvIds(pr_map, g2b_map) == Sorted(DOMAIN pr_map \cup DOMAIN g2b_map)

RECURSIVE Concat(_)
Concat(ss) == IF ss = <<>> THEN <<>> ELSE Head(ss) \o Concat(Tail(ss))

\* ca_overview, one pass of the loop over all_inv_ids: the reconciliation row
\* appended, and the missing_itc entry appended in the MISSING branch
CaReconStep(d, pr_map, g2b_map, inv_id) ==
    LET pr_doc == IF inv_id \in DOMAIN pr_map THEN pr_map[inv_id] ELSE None
        g2b_doc == IF inv_id \in DOMAIN g2b_map THEN g2b_map[inv_id] ELSE None
        inv_doc == FindOne(FindInvoice(d.Invoices, inv_id))
        seller == IF g2b_doc # None /\ Truthy(g2b_doc.Seller_GSTIN)
                  THEN g2b_doc.Seller_GSTIN
                  ELSE IF pr_doc # None /\ inv_doc # None
                       THEN Get(inv_doc.Seller_GSTIN, "N/A")
                       ELSE "N/A"
        both == pr_doc # None /\ g2b_doc # None
        only_pr == ~both /\ pr_doc # None /\ g2b_doc = None
        recon == IF both
                  THEN IF AbsDiffLess(SafeFloat(pr_doc.Value_Claimed),
                                      SafeFloat(g2b_doc.Value), Tolerance)
                       THEN "MATCHED" ELSE "MISMATCH"
                  ELSE IF only_pr THEN "MISSING" ELSE "MATCHED"
    IN [row |-> [Invoice_ID |-> inv_id, Seller_GSTIN |-> seller,
                 Purchase_Value |-> IF pr_doc # None
                                    THEN SafeFloat(pr_doc.Value_Claimed) ELSE None,
                 GSTR2B_Value |-> IF g2b_doc # None
                                  THEN SafeFloat(g2b_doc.Value) ELSE None,
                 Status |-> recon],
        missing |-> IF only_pr
                    THEN <<[Invoice_ID |-> inv_id, Seller_GSTIN |-> seller,
                            Tax_Claimed |-> pr_doc.Tax_Claimed]>>
                    ELSE <<>>]

\* GET /ca/overview/{gstin}: the reconciliation and missing_itc of the response
ca_overview(d, gstin) ==
    LET taxpayer == FindOne(SelectSeq(d.Taxpayers, LAMBDA r : r.GSTIN = gstin))
        pr_raw == ToList(FindBuyer(d.Purchase_Register, gstin), CaListLength)
        g2b_raw == ToList(FindBuyer(d.GSTR2B, gstin), CaListLength)
        pr_map == DocMap(pr_raw)
        g2b_map == DocMap(g2b_raw)
        all_inv_ids == AllInvIds(pr_map, g2b_map)
        pass == [i \in DOMAIN all_inv_ids |->
                    CaReconStep(d, pr_map, g2b_map, all_inv_ids[i])]
    IN IF taxpayer = None
       THEN [kind |-> "ca_overview", gstin |-> gstin, code |-> 404]
       ELSE [kind |-> "ca_overview", gstin |-> gstin, code |-> 200,
             reconciliation |-> [i \in DOMAIN pass |-> pass[i].row],
             missing_itc |-> Concat([i \in DOMAIN pass |-> pass[i].missing])]

\* GET /ca/invoice/{gstin}/{inv_id}
ca_invoice_detail(d, gstin, inv_id) ==
    LET pr == FindOne(FindInvoice(FindBuyer(d.Purchase_Register, gstin), inv_id))
        g2b == FindOne(FindInvoice(FindBuyer(d.GSTR2B, gstin), inv_id))
        inv == FindOne(FindInvoice(d.Invoices, inv_id))
        seller == IF g2b # None /\ Truthy(g2b.Seller_GSTIN) THEN g2b.Seller_GSTIN
                  ELSE IF inv # None THEN Get(inv.Seller_GSTIN, "N/A") ELSE "N/A"
        recon == IF pr # None /\ g2b # None
                  THEN IF AbsDiffLess(SafeFloat(pr.Value_Claimed),
                                      SafeFloat(g2b.Value), Tolerance)
                       THEN "MATCHED" ELSE "MISMATCH"
                  ELSE IF pr # None /\ g2b = None THEN "MISSING" ELSE "MATCHED"
    IN IF pr = None /\ g2b = None
       THEN IF inv # None /\ inv.Buyer_GSTIN # gstin /\ inv.Seller_GSTIN # gstin
            THEN [kind |-> "ca_invoice_detail", gstin |-> gstin, inv_id |-> inv_id, code |-> 403]
            ELSE [kind |-> "ca_invoice_detail", gstin |-> gstin, inv_id |-> inv_id, code |-> 404]
       ELSE [kind |-> "ca_invoice_detail", gstin |-> gstin, inv_id |-> inv_id, code |-> 200,
             seller_gstin |-> seller, reconciliation_status |-> recon,
             itc_eligible |-> IF g2b # None THEN Get(g2b.ITC_Eligible, "UNKNOWN")
                              ELSE "UNKNOWN"]

\* dashboard_overview: if inv_id and inv_id not in gstr2b_map
CriticalFor(pr, gstr2b_map) ==
    Truthy(pr.Invoice_ID) /\ pr.Invoice_ID \notin DOMAIN gstr2b_map

\* the keys of a dict built from rows, in insertion order
KeyOrder(rows) ==
    LET at == [i \in DOMAIN rows |-> [i |-> i, id |-> rows[i].Invoice_ID]]
        first == SelectSeq(at, LAMBDA p :
                     /\ Truthy(p.id)
                     /\ \A j \in 1..(p.i - 1) : rows[j].Invoice_ID # p.id)
    IN [k \in DOMAIN first |-> first[k].id]

\* GET /dashboard/overview/{gstin}: the payment_warnings of the response
dashboard_overview(d, gstin) ==
    LET taxpayer == FindOne(SelectSeq(d.Taxpayers, LAMBDA r : r.GSTIN = gstin))
        gstr2b_raw == ToList(FindBuyer(d.GSTR2B, gstin), DashListLength)
        pr_raw == ToList(FindBuyer(d.Purchase_Register, gstin), DashListLength)
        gstr2b_map == DocMap(gstr2b_raw)
        critical == SelectSeq(pr_raw, LAMBDA pr : CriticalFor(pr, gstr2b_map))
        blocked == SelectSeq(KeyOrder(gstr2b_raw),
                             LAMBDA id : gstr2b_map[id].ITC_Eligible = "NO")
    IN IF taxpayer = None
       THEN [kind |-> "dashboard_overview", gstin |-> gstin, code |-> 404]
       ELSE [kind |-> "dashboard_overview", gstin |-> gstin, code |-> 200,
             payment_warnings |->
                 [i \in DOMAIN critical |->
                     [invoice_id |-> critical[i].Invoice_ID, severity |-> "CRITICAL"]]
                 \o [i \in DOMAIN blocked |->
                     [invoice_id |-> blocked[i], severity |-> "WARNING"]]]

EWayBillThreshold == 500000000   \* 50000

\* ewaybill_fraud: val > 50000 (float(text) is monotone and 50000 is a double,
\* so the doubles compare as the decimals do)
HighValue(val) == val.n > EWayBillThreshold

\* list.sort(key=lambda v: -v["Value"]): stable, largest Value first
RECURSIVE SortByValueDesc(_)
SortByValueDesc(s) ==
    IF s = <<>> THEN <<>>
    ELSE LET front == SortByValueDesc(SubSeq(s, 1, Len(s) - 1))
             x == s[Len(s)]
             k == Cardinality({i \in DOMAIN front : front[i].Value.n >= x.Value.n})
         IN SubSeq(front, 1, k) \o <<x>> \o SubSeq(front, k + 1, Len(front))

\* GET /inspector/ewaybill-fraud
ewaybill_fraud(d) ==
    LET invoices == ToList(d.Invoices, FraudListLength)
        ewb_all == ToList(d.EWayBill, FraudListLength)
        ewb_inv_ids == {ewb_all[i].Invoice_ID :
                            i \in {j \in DOMAIN ewb_all : Truthy(ewb_all[j].Invoice_ID)}}
        hit == SelectSeq(invoices, LAMBDA inv :
                   /\ HighValue(SafeFloat(inv.Value))
                   /\ Get(inv.Invoice_ID, "") \notin ewb_inv_ids)
        suspects == [i \in DOMAIN hit |->
                        [Invoice_ID |-> Get(hit[i].Invoice_ID, ""),
                         Seller_GSTIN |-> Get(hit[i].Seller_GSTIN, "N/A"),
                         Buyer_GSTIN |-> Get(hit[i].Buyer_GSTIN, "N/A"),
                         Value |-> SafeFloat(hit[i].Value)]]
    IN [kind |-> "ewaybill_fraud", count |-> Len(suspects),
        suspects |-> SortByValueDesc(suspects)]

----------------------------------------------------------------------------
(* Vendor risk in the buyer-scoped views                                    *)

\* ca_overview: seller_gstins, from the Invoices document of each
\* Purchase_Register row (find_one on the row's Invoice_ID; a row without the
\* key asks for None, which matches a document without the key) and from the
\* GSTR2B rows
CaSellerGstins(d, gstin) ==
    LET pr_raw == ToList(FindBuyer(d.Purchase_Register, gstin), CaListLength)
        g2b_raw == ToList(FindBuyer(d.GSTR2B, gstin), CaListLength)
        inv_doc(i) == FindOne(FindInvoice(d.Invoices, pr_raw[i].Invoice_ID))
    IN {inv_doc(i).Seller_GSTIN :
            i \in {j \in DOMAIN pr_raw :
                      inv_doc(j) # None /\ Truthy(inv_doc(j).Seller_GSTIN)}}
       \cup {g2b_raw[i].Seller_GSTIN :
                i \in {j \in DOMAIN g2b_raw : Truthy(g2b_raw[j].Seller_GSTIN)}}

\* ca_overview: the filing_status list, one row for each seller of seller_list;
\* both find_one calls take the first matching document in store order
ca_filing_status_any_buyer(d, gstin) ==
    LET row(sg) ==
            LET gstr1_entry == FindOne(SelectSeq(d.GSTR1, LAMBDA r : r.Seller_GSTIN = sg))
                gstr3b_entry == FindOne(SelectSeq(d.GSTR3B, LAMBDA r : r.Seller_GSTIN = sg))
                payment == IF gstr3b_entry # None
                           THEN Get(gstr3b_entry.Payment_Confirmed, "N") ELSE "N"
            IN [Seller_GSTIN |-> sg,
                GSTR1_Status |-> IF gstr1_entry # None
                                 THEN Get(gstr1_entry.Status, "NOT FILED")
                                 ELSE "NOT FILED",
                GSTR3B_Payment |-> IF payment = "Y" THEN "YES" ELSE "NO"]
        seller_list == Sorted(CaSellerGstins(d, gstin))
    IN [i \in DOMAIN seller_list |-> row(seller_list[i])]

ca_filing_status(d, gstin) ==
    LET row(sg) ==
            LET gstr1_entry == FindOne(SelectSeq(d.GSTR1, LAMBDA r :
                                   r.Seller_GSTIN = sg /\ r.Buyer_GSTIN = gstin))
                gstr3b_entry == FindOne(SelectSeq(d.GSTR3B, LAMBDA r : r.Seller_GSTIN = sg))
                payment == IF gstr3b_entry # None
                           THEN Get(gstr3b_entry.Payment_Confirmed, "N") ELSE "N"
            IN [Seller_GSTIN |-> sg,
                GSTR1_Status |-> IF gstr1_entry # None
                                 THEN Get(gstr1_entry.Status, "NOT FILED")
                                 ELSE "NOT FILED",
                GSTR3B_Payment |-> IF payment = "Y" THEN "YES" ELSE "NO"]
        seller_list == Sorted(CaSellerGstins(d, gstin))
    IN [i \in DOMAIN seller_list |-> row(seller_list[i])]

\* ca_overview: the vendor_risk list (Reasons is the list that the code joins
\* with " | ")
ca_vendor_risk(d, gstin) ==
    LET g2b_raw == ToList(FindBuyer(d.GSTR2B, gstin), CaListLength)
        seller_list == Sorted(CaSellerGstins(d, gstin))
        entry(sg) ==
            LET blocked == \E i \in DOMAIN g2b_raw :
                               /\ g2b_raw[i].Seller_GSTIN = sg
                               /\ g2b_raw[i].ITC_Eligible = "NO"
                g3b == FindOne(SelectSeq(d.GSTR3B, LAMBDA r : r.Seller_GSTIN = sg))
                unpaid == g3b # None /\ g3b.Payment_Confirmed # "Y"
                reasons == (IF blocked THEN <<"ITC blocked">> ELSE <<>>)
                           \o (IF unpaid THEN <<"GSTR3B payment not confirmed">> ELSE <<>>)
            IN [Vendor_GSTIN |-> sg,
                Risk_Level |-> IF reasons = <<>> THEN "LOW" ELSE "HIGH",
                Reasons |-> IF reasons = <<>> THEN <<"No issues">> ELSE reasons]
        every == [i \in DOMAIN seller_list |-> entry(seller_list[i])]
        risky == SelectSeq(every, LAMBDA v : v.Risk_Level # "LOW")
    IN SelectSeq(risky, LAMBDA v : v.Risk_Level = "HIGH")
       \o SelectSeq(risky, LAMBDA v : v.Risk_Level # "HIGH")

\* dashboard_overview: set(pr_inv_ids + g2b_inv_ids)
DashInvIds(d, gstin) ==
    LET pr_raw == ToList(FindBuyer(d.Purchase_Register, gstin), DashListLength)
        gstr2b_raw == ToList(FindBuyer(d.GSTR2B, gstin), DashListLength)
    IN {pr_raw[i].Invoice_ID : i \in {j \in DOMAIN pr_raw : Truthy(pr_raw[j].Invoice_ID)}}
       \cup {gstr2b_raw[i].Invoice_ID :
                i \in {j \in DOMAIN gstr2b_raw : Truthy(gstr2b_raw[j].Invoice_ID)}}

\* find({"Invoice_ID": {"$in": all_inv_ids}}).to_list(length=1000)
FindIn(rows, ids) ==
    ToList(SelectSeq(rows, LAMBDA r : r.Invoice_ID \in ids), DashListLength)

\* dashboard_overview: seller_gstins_inv | seller_gstins_g2b
AllSellerGstins(d, gstin) ==
    LET gstr2b_raw == ToList(FindBuyer(d.GSTR2B, gstin), DashListLength)
        invoices_raw == FindIn(d.Invoices, DashInvIds(d, gstin))
    IN {invoices_raw[i].Seller_GSTIN :
            i \in {j \in DOMAIN invoices_raw : Truthy(invoices_raw[j].Seller_GSTIN)}}
       \cup {gstr2b_raw[i].Seller_GSTIN :
                i \in {j \in DOMAIN gstr2b_raw : Truthy(gstr2b_raw[j].Seller_GSTIN)}}

\* list(a_set): the members in the iteration order of the set, which for
\* strings depends on the hash seed of the process; every order can occur
SetOrders(S) ==
    {s \in [1..Cardinality(S) -> S] : \A i, j \in DOMAIN s : s[i] = s[j] => i = j}

\* dashboard_overview: the vendor_risk list, all_seller_gstins being list(set)
\* (the reason of condition 3 is recorded without its list of invoice IDs)
dash_vendor_risk(d, gstin, all_seller_gstins) ==
    LET gstr2b_raw == ToList(FindBuyer(d.GSTR2B, gstin), DashListLength)
        all_inv_ids == DashInvIds(d, gstin)
        invoices_raw == FindIn(d.Invoices, all_inv_ids)
        inv_map == DocMap(invoices_raw)
        gstr1_map == DocMap(FindIn(d.GSTR1, all_inv_ids))
        gstr3b_raw == ToList(SelectSeq(d.GSTR3B, LAMBDA r :
                          \E k \in DOMAIN all_seller_gstins :
                              r.Seller_GSTIN = all_seller_gstins[k]), DashListLength)
        ewb_map == DocMap(FindIn(d.EWayBill, all_inv_ids))
        entry(sg) ==
            LET seller_inv_ids == SelectSeq(KeyOrder(invoices_raw),
                                      LAMBDA id : inv_map[id].Seller_GSTIN = sg)
                has_gstr1 == \E i \in DOMAIN seller_inv_ids :
                                 seller_inv_ids[i] \in DOMAIN gstr1_map
                has_unpaid == \E i \in DOMAIN gstr3b_raw :
                                  /\ gstr3b_raw[i].Seller_GSTIN = sg
                                  /\ gstr3b_raw[i].Payment_Confirmed # "Y"
                blocked == \E i \in DOMAIN gstr2b_raw :
                               /\ gstr2b_raw[i].Seller_GSTIN = sg
                               /\ gstr2b_raw[i].ITC_Eligible = "NO"
                missing_ewb == SelectSeq(seller_inv_ids, LAMBDA id : id \notin DOMAIN ewb_map)
                reasons ==
                    (IF has_gstr1 /\ has_unpaid
                     THEN <<"GSTR1 filed but GSTR3B payment not confirmed">> ELSE <<>>)
                    \o (IF blocked THEN <<"ITC blocked for one or more invoices">> ELSE <<>>)
                    \o (IF missing_ewb # <<>> THEN <<"Missing EWayBill">> ELSE <<>>)
            IN [gstin |-> sg,
                risk_level |-> IF (has_gstr1 /\ has_unpaid) \/ blocked THEN "HIGH"
                               ELSE IF missing_ewb # <<>> THEN "MEDIUM" ELSE "LOW",
                reasons |-> IF reasons = <<>> THEN <<"No issues detected">> ELSE reasons]
        vendor_risk == [i \in DOMAIN all_seller_gstins |-> entry(all_seller_gstins[i])]
    IN SelectSeq(vendor_risk, LAMBDA v : v.risk_level = "HIGH")
       \o SelectSeq(vendor_risk, LAMBDA v : v.risk_level = "MEDIUM")
       \o SelectSeq(vendor_risk, LAMBDA v : v.risk_level = "LOW")

----------------------------------------------------------------------------
(* The query endpoints as actions: a call stores its response in resp      *)

MaxQueryDocs == 3

QueryGstins == {"G1", "G2"}
QueryInvIds == {"INV1", "INV2", "INV3"}

CaOverview ==
    /\ \E g \in QueryGstins :
          resp' = LET r == ca_overview(db, g)
                  IN IF r.code = 200
                     THEN [vendor_risk |-> ca_vendor_risk(db, g),
                           filing_status |-> ca_filing_status(db, g)] @@ r
                     ELSE r
    /\ UNCHANGED <<ingestion, connections, db, graph, pc, cur, steps, status, runs, prev>>

CaInvoiceDetail ==
    /\ \E g \in QueryGstins, id \in QueryInvIds : resp' = ca_invoice_detail(db, g, id)
    /\ UNCHANGED <<ingestion, connections, db, graph, pc, cur, steps, status, runs, prev>>

DashboardOverview ==
    /\ \E g \in QueryGstins :
          \E all_seller_gstins \in SetOrders(AllSellerGstins(db, g)) :
              resp' = LET r == dashboard_overview(db, g)
                      IN IF r.code = 200
                         THEN [vendor_risk |-> dash_vendor_risk(db, g, all_seller_gstins)] @@ r
                         ELSE r
    /\ UNCHANGED <<ingestion, connections, db, graph, pc, cur, steps, status, runs, prev>>

EwaybillFraud ==
    /\ resp' = ewaybill_fraud(db)
    /\ UNCHANGED <<ingestion, connections, db, graph, pc, cur, steps, status, runs, prev>>

NextQuery == CaOverview \/ CaInvoiceDetail \/ DashboardOverview \/ EwaybillFraud

\* 1000.01, 1000.00, 1000.005, 1000.02, 0.01; 60000, 50000, 49999.99, 50000.01
QueryRows ==
    {<<"Purchase_Register", PurchaseDoc("G1", "INV1", NumV(10000100))>>,
     <<"Purchase_Register", PurchaseDoc("G1", "INV1", NumV(10000000))>>,
     <<"Purchase_Register", PurchaseDoc("G1", "INV2", NumV(100))>>,
     <<"Purchase_Register", PurchaseDoc("G1", "INV3", NumV(10000000))>>,
     <<"Purchase_Register", PurchaseDoc("G1", "", TextV)>>,
     <<"GSTR2B", Gstr2bDoc("INV1", "G1", "G2", "YES", NumV(10000000))>>,
     <<"GSTR2B", Gstr2bDoc("INV1", "G1", "G2", "NO", NumV(10000050))>>,
     <<"GSTR2B", Gstr2bDoc("INV2", "G1", Absent, "YES", TextV)>>,
     <<"GSTR2B", Gstr2bDoc("INV3", "G1", "G2", "YES", NumV(10000200))>>,
     <<"GSTR2B", Gstr2bDoc("INV1", "G2", "G1", "YES", NumV(10000100))>>,
     <<"Invoices", InvoiceDoc("INV1", "G2", "G1", NumV(600000000))>>,
     <<"Invoices", InvoiceDoc("INV2", "G2", "G1", NumV(500000000))>>,
     <<"Invoices", InvoiceDoc("INV3", "G3", "G2", NumV(499999900))>>,
     <<"Invoices", InvoiceDoc("INV4", "G2", "G1", NumV(500000100))>>,
     <<"Invoices", InvoiceDoc(Absent, "G2", "G1", NumV(600000000))>>,
     <<"EWayBill", EWayBillDoc("EWB1", "INV1")>>,
     <<"EWayBill", EWayBillDoc("EWB2", Absent)>>}

\* n equal rows, as a file that repeats a row n times ingests them
Repeat(doc, n) == [i \in 1..n |-> doc]

\* Stores with more rows than a to_list(length) of the endpoints reads: for one
\* buyer, more Purchase_Register rows than dashboard_overview reads and more
\* than ca_overview reads; and more Invoices than ewaybill_fraud reads.
LargeDbs ==
    {[EmptyDb EXCEPT !.Purchase_Register =
          Repeat(PurchaseDoc("G1", "INV1", NumV(10000000)), DashListLength)
              \o <<PurchaseDoc("G1", "INV2", NumV(10000000))>>],
     [EmptyDb EXCEPT !.Purchase_Register =
          Repeat(PurchaseDoc("G1", "INV1", NumV(10000000)), CaListLength)
              \o <<PurchaseDoc("G1", "INV2", NumV(10000000))>>],
     [EmptyDb EXCEPT !.Invoices =
          Repeat(InvoiceDoc("INV2", "G2", "G1", NumV(500000000)), FraudListLength)
              \o <<InvoiceDoc("INV1", "G2", "G1", NumV(600000000))>>]}

\* G1 is a registered taxpayer, G2 is not
InitQuery ==
    /\ db \in {[d EXCEPT !.Taxpayers = <<TaxpayerDoc("G1", "LOW", "10.0.0.1", "")>>] :
                  d \in DbsOf(QueryRows, MaxQueryDocs) \cup LargeDbs}
    /\ graph = EmptyGraph
    /\ pc = "idle"
    /\ cur = IdleCur
    /\ steps = <<>>
    /\ status = Null
    /\ runs = 0
    /\ prev = [graph |-> EmptyGraph, clean |-> FALSE]
    /\ NoConnections
    /\ NoIngestion
    /\ resp = NoResp

SpecQuery == InitQuery /\ [][NextQuery]_vars

----------------------------------------------------------------------------
(* Claims on the reconciliation queries (SpecQuery) *)

\* the rows of a collection that belong to a buyer and carry an invoice ID
BuyerRows(rows, gstin, id) ==
    SelectSeq(rows, LAMBDA r : r.Buyer_GSTIN = gstin /\ r.Invoice_ID = id)
BuyerIds(rows, gstin) ==
    {rows[i].Invoice_ID :
        i \in {j \in DOMAIN rows : rows[j].Buyer_GSTIN = gstin /\ Truthy(rows[j].Invoice_ID)}}

CaAnswered == resp.kind = "ca_overview" /\ resp.code = 200

\* C2: the reconciliation list of ca_overview holds exactly one row for every
\* invoice ID carried by a Purchase_Register row or a GSTR2B row of the buyer,
\* no row for any other ID, and every Status is MATCHED, MISMATCH or MISSING.
C2_Completeness ==
    CaAnswered =>
        LET rec == resp.reconciliation
            union == BuyerIds(db.Purchase_Register, resp.gstin)
                        \cup BuyerIds(db.GSTR2B, resp.gstin)
        IN /\ {rec[i].Invoice_ID : i \in DOMAIN rec} = union
           /\ \A i, j \in DOMAIN rec : rec[i].Invoice_ID = rec[j].Invoice_ID => i = j
           /\ \A i \in DOMAIN rec : rec[i].Status \in {"MATCHED", "MISMATCH", "MISSING"}

\* the reconciliation statuses a response assigns, as <<invoice ID, status>>
StatusOf(r, id) ==
    IF r.kind = "ca_invoice_detail"
    THEN r.reconciliation_status
    ELSE LET i == CHOOSE k \in DOMAIN r.reconciliation : r.reconciliation[k].Invoice_ID = id
         IN r.reconciliation[i].Status

\* the decimal difference of the two values of an invoice, in units of 1/10000
DecimalDiff(gstin, id) ==
    LET a == BuyerRows(db.Purchase_Register, gstin, id)[1].Value_Claimed.n
        b == BuyerRows(db.GSTR2B, gstin, id)[1].Value.n
    IN IF a < b THEN b - a ELSE a - b

OneNumericRowEach(gstin, id) ==
    LET prs == BuyerRows(db.Purchase_Register, gstin, id)
        g2s == BuyerRows(db.GSTR2B, gstin, id)
    IN /\ Len(prs) = 1 /\ Len(g2s) = 1
       /\ prs[1].Value_Claimed.t = "num" /\ g2s[1].Value.t = "num"

\* C3: an invoice with one Purchase_Register row and one GSTR2B row of the buyer
\* is MATCHED exactly when the two values differ by less than 0.01 and MISMATCH
\* when they differ by 0.01 or more, in ca_overview and in ca_invoice_detail
\* alike; and the two endpoints give an invoice the same status when no
\* collection holds two rows of one (buyer, invoice).
C3_ToleranceBoundary ==
    /\ (resp.kind \in {"ca_overview", "ca_invoice_detail"} /\ resp.code = 200) =>
          \A id \in QueryInvIds :
              (/\ OneNumericRowEach(resp.gstin, id)
               /\ resp.kind = "ca_invoice_detail" => resp.inv_id = id) =>
                  /\ StatusOf(resp, id) = "MATCHED" <=> DecimalDiff(resp.gstin, id) < Tolerance
                  /\ StatusOf(resp, id) = "MISMATCH" <=> DecimalDiff(resp.gstin, id) >= Tolerance
    /\ (resp.kind = "ca_invoice_detail" /\ resp.code = 200) =>
          LET ca == ca_overview(db, resp.gstin)
          IN (/\ ca.code = 200
              /\ Len(BuyerRows(db.Purchase_Register, resp.gstin, resp.inv_id)) <= 1
              /\ Len(BuyerRows(db.GSTR2B, resp.gstin, resp.inv_id)) <= 1) =>
                 StatusOf(ca, resp.inv_id) = resp.reconciliation_status

IdsWhere(s, key, field, val) ==
    {s[i][key] : i \in {j \in DOMAIN s : s[j][field] = val}}

\* C7: for a registered buyer, every invoice ID with a Purchase_Register row and
\* no GSTR2B row of the buyer has status MISSING and an entry in missing_itc in
\* ca_overview, and a CRITICAL payment warning in dashboard_overview; the IDs in
\* missing_itc are exactly the IDs of status MISSING, and the IDs with a
\* CRITICAL warning are exactly the IDs in missing_itc.
C7_MissingItcAgreement ==
    (resp.kind \in {"ca_overview", "dashboard_overview"} /\ resp.code = 200) =>
        LET ca == IF resp.kind = "ca_overview" THEN resp
                  ELSE ca_overview(db, resp.gstin)
            dash == IF resp.kind = "dashboard_overview" THEN resp
                    ELSE dashboard_overview(db, resp.gstin)
            unmatched == BuyerIds(db.Purchase_Register, resp.gstin)
                            \ BuyerIds(db.GSTR2B, resp.gstin)
            missing == IdsWhere(ca.reconciliation, "Invoice_ID", "Status", "MISSING")
            listed == {ca.missing_itc[i].Invoice_ID : i \in DOMAIN ca.missing_itc}
            critical == IdsWhere(dash.payment_warnings, "invoice_id", "severity", "CRITICAL")
        IN /\ ca.code = 200 /\ dash.code = 200
           /\ unmatched \subseteq missing
           /\ listed = missing
           /\ critical = listed

\* the documents of the store that describe an invoice: its Invoices documents
\* and the Purchase_Register and GSTR2B rows that carry its ID
DocsOfInvoice(id) ==
    FindInvoice(db.Invoices, id) \o FindInvoice(db.Purchase_Register, id)
        \o FindInvoice(db.GSTR2B, id)

\* C12: ca_invoice_detail answers 403 exactly when the store holds the invoice
\* and none of its documents names the requesting GSTIN as buyer or seller,
\* 404 exactly when the store holds no document of the invoice, and 200
\* otherwise; an invoice whose buyer or seller is the requesting GSTIN is
\* never answered with 404.
C12_DetailErrors ==
    resp.kind = "ca_invoice_detail" =>
        LET docs == DocsOfInvoice(resp.inv_id)
            party == \E i \in DOMAIN docs :
                        \/ docs[i].Buyer_GSTIN = resp.gstin
                        \/ /\ "Seller_GSTIN" \in DOMAIN docs[i]
                           /\ docs[i].Seller_GSTIN = resp.gstin
        IN /\ resp.code \in {200, 403, 404}
           /\ resp.code = 403 <=> (docs # <<>> /\ ~party)
           /\ resp.code = 404 <=> docs = <<>>
           /\ party => resp.code # 404

\* an EWayBill record carries the invoice's ID
Carried(inv) ==
    \E i \in DOMAIN db.EWayBill :
        Truthy(db.EWayBill[i].Invoice_ID) /\ db.EWayBill[i].Invoice_ID = inv.Invoice_ID

Violates(inv) ==
    inv.Value.t = "num" /\ inv.Value.n > EWayBillThreshold /\ ~Carried(inv)

\* C9: the suspects of ewaybill_fraud are exactly the invoices whose value is
\* above 50000 and whose Invoice_ID no EWayBill record carries, each once (an
\* invoice of 50000 or 49999.99 is never among them), in order of
\* non-increasing value.
C9_EWayBillViolations ==
    resp.kind = "ewaybill_fraud" =>
        LET s == resp.suspects
            inv == db.Invoices
            entry(j) == [Invoice_ID |-> Get(inv[j].Invoice_ID, ""),
                         Seller_GSTIN |-> inv[j].Seller_GSTIN,
                         Buyer_GSTIN |-> inv[j].Buyer_GSTIN,
                         Value |-> inv[j].Value]
            hits == {j \in DOMAIN inv : Violates(inv[j])}
        IN /\ \A i \in DOMAIN s :
                Cardinality({k \in DOMAIN s : s[k] = s[i]})
                    = Cardinality({j \in hits : entry(j) = s[i]})
           /\ \A j \in hits : \E i \in DOMAIN s : s[i] = entry(j)
           /\ resp.count = Cardinality(hits)
           /\ \A i \in DOMAIN s : s[i].Value.n \notin {500000000, 499999900}
           /\ \A i \in 1..(Len(s) - 1) : s[i].Value.n >= s[i + 1].Value.n


\* C24: in ca_overview a reconciliation row whose GSTR2B row is absent or
\* carries no Seller_GSTIN has the Seller_GSTIN of the Invoices document with
\* its Invoice_ID whenever such a document (with a seller) exists, and N/A only
\* otherwise; when the GSTR2B row carries a seller, that seller is used.
C24_SellerFallback ==
    (resp.kind = "ca_overview" /\ resp.code = 200) =>
        \A i \in DOMAIN resp.reconciliation :
            LET row == resp.reconciliation[i]
                g2b == BuyerRows(db.GSTR2B, resp.gstin, row.Invoice_ID)
                invs == FindInvoice(db.Invoices, row.Invoice_ID)
            IN IF g2b # <<>> /\ Truthy(g2b[Len(g2b)].Seller_GSTIN)
               THEN row.Seller_GSTIN = g2b[Len(g2b)].Seller_GSTIN
               ELSE IF invs # <<>> /\ Truthy(invs[1].Seller_GSTIN)
                    THEN row.Seller_GSTIN = invs[1].Seller_GSTIN
                    ELSE row.Seller_GSTIN = "N/A"

\* What does hold of C24: the fallback is taken for the rows that have a
\* Purchase_Register row; a row with only a GSTR2B row without seller is N/A.
C24_FallbackWithPurchase ==
    (resp.kind = "ca_overview" /\ resp.code = 200) =>
        \A i \in DOMAIN resp.reconciliation :
            LET row == resp.reconciliation[i]
                g2b == BuyerRows(db.GSTR2B, resp.gstin, row.Invoice_ID)
                pr == BuyerRows(db.Purchase_Register, resp.gstin, row.Invoice_ID)
                invs == FindInvoice(db.Invoices, row.Invoice_ID)
            IN IF g2b # <<>> /\ Truthy(g2b[Len(g2b)].Seller_GSTIN)
               THEN row.Seller_GSTIN = g2b[Len(g2b)].Seller_GSTIN
               ELSE IF pr # <<>> /\ invs # <<>> /\ Truthy(invs[1].Seller_GSTIN)
                    THEN row.Seller_GSTIN = invs[1].Seller_GSTIN
                    ELSE row.Seller_GSTIN = "N/A"

----------------------------------------------------------------------------
(* Vendor risk: the stores and the claims (SpecVendor)                      *)

MaxVendorDocs == 3

\* buyer G1, sellers G2 and G3
VendorRows ==
    {<<"GSTR2B", Gstr2bDoc("INV1", "G1", "G2", "NO", NumV(10000000))>>,
     <<"GSTR2B", Gstr2bDoc("INV1", "G1", "G2", "YES", NumV(10000000))>>,
     <<"GSTR2B", Gstr2bDoc("INV2", "G1", "G3", "NO", NumV(10000000))>>,
     <<"GSTR2B", Gstr2bDoc("INV2", "G1", "G3", "YES", NumV(10000000))>>,
     <<"Purchase_Register", PurchaseDoc("G1", "INV1", NumV(10000000))>>,
     <<"Purchase_Register", PurchaseDoc("G1", "INV2", NumV(10000000))>>,
     <<"Invoices", InvoiceDoc("INV1", "G2", "G1", NumV(10000000))>>,
     <<"Invoices", InvoiceDoc("INV2", "G3", "G1", NumV(10000000))>>,
     <<"GSTR1", Gstr1Doc("G2", "G1", "INV1", "FILED", Jan19)>>,
     <<"GSTR1", Gstr1Doc("G3", "G1", "INV2", "FILED", Jan19)>>,
     <<"GSTR1", Gstr1Doc("G2", "G3", "INV3", "PENDING", Jan19)>>,
     <<"GSTR3B", Gstr3bDoc("G2", "Jan", "N")>>,
     <<"GSTR3B", Gstr3bDoc("G3", "Jan", "Y")>>,
     <<"GSTR3B", Gstr3bDoc("G3", "Feb", "N")>>,
     <<"EWayBill", EWayBillDoc("EWB1", "INV1")>>}

InitVendor ==
    /\ db \in {[d EXCEPT !.Taxpayers = <<TaxpayerDoc("G1", "LOW", "10.0.0.1", "")>>] :
                  d \in DbsOf(VendorRows, MaxVendorDocs)}
    /\ graph = EmptyGraph
    /\ pc = "idle"
    /\ cur = IdleCur
    /\ steps = <<>>
    /\ status = Null
    /\ runs = 0
    /\ prev = [graph |-> EmptyGraph, clean |-> FALSE]
    /\ NoConnections
    /\ NoIngestion
    /\ resp = NoResp

SpecVendor == InitVendor /\ [][NextQuery]_vars

\* the severity of a reason of either view, and of a level: HIGH 2, MEDIUM 1, LOW 0
SeverityOf(x) ==
    CASE x \in {"HIGH", "ITC blocked", "GSTR3B payment not confirmed",
                "GSTR1 filed but GSTR3B payment not confirmed",
                "ITC blocked for one or more invoices"} -> 2
      [] x \in {"MEDIUM", "Missing EWayBill"} -> 1
      [] OTHER -> 0

\* the vendor_risk list of a response as <<seller, level, reasons>> entries
VendorRisk(r) ==
    IF r.kind = "ca_overview"
    THEN [i \in DOMAIN r.vendor_risk |->
            <<r.vendor_risk[i].Vendor_GSTIN, r.vendor_risk[i].Risk_Level,
              r.vendor_risk[i].Reasons>>]
    ELSE [i \in DOMAIN r.vendor_risk |->
            <<r.vendor_risk[i].gstin, r.vendor_risk[i].risk_level,
              r.vendor_risk[i].reasons>>]

\* a GSTR2B row of the buyer names the seller and is not ITC eligible
ItcBlocked(buyer, seller) ==
    \E i \in DOMAIN db.GSTR2B :
        /\ db.GSTR2B[i].Buyer_GSTIN = buyer /\ db.GSTR2B[i].Seller_GSTIN = seller
        /\ db.GSTR2B[i].ITC_Eligible = "NO"

\* an invoice of the seller that the buyer's rows refer to has no EWayBill
EwbMissing(buyer, seller) ==
    \E i \in DOMAIN db.Invoices :
        /\ db.Invoices[i].Seller_GSTIN = seller
        /\ db.Invoices[i].Invoice_ID \in DashInvIds(db, buyer)
        /\ \A k \in DOMAIN db.EWayBill :
              db.EWayBill[k].Invoice_ID # db.Invoices[i].Invoice_ID

VendorAnswered ==
    resp.kind \in {"ca_overview", "dashboard_overview"} /\ resp.code = 200

\* C13 (levels and reasons): in both views a seller's level is the greatest
\* severity among the reasons listed for it, a seller with a blocked GSTR2B
\* row carries the ITC-blocked reason, and in dashboard_overview a seller with
\* an invoice without an e-way bill carries the missing e-way bill reason
\* (so it is MEDIUM exactly when no HIGH reason is listed with it).
C13_Levels ==
    VendorAnswered =>
        LET vr == VendorRisk(resp)
        IN \A i \in DOMAIN vr :
              /\ \A k \in DOMAIN vr[i][3] : SeverityOf(vr[i][3][k]) <= SeverityOf(vr[i][2])
              /\ \E k \in DOMAIN vr[i][3] : SeverityOf(vr[i][3][k]) = SeverityOf(vr[i][2])
              /\ ItcBlocked(resp.gstin, vr[i][1]) =>
                    \E k \in DOMAIN vr[i][3] :
                        vr[i][3][k] \in {"ITC blocked", "ITC blocked for one or more invoices"}
              /\ (resp.kind = "dashboard_overview" /\ EwbMissing(resp.gstin, vr[i][1])) =>
                    \E k \in DOMAIN vr[i][3] : vr[i][3][k] = "Missing EWayBill"

\* C13: the levels and reasons are as above, and the vendor_risk list of both
\* views is in order of descending severity, sellers of equal severity in
\* ascending GSTIN order.
C13_VendorRiskOrder ==
    /\ C13_Levels
    /\ VendorAnswered =>
          LET vr == VendorRisk(resp)
          IN \A i, j \in DOMAIN vr :
                i < j =>
                   \/ SeverityOf(vr[i][2]) > SeverityOf(vr[j][2])
                   \/ /\ SeverityOf(vr[i][2]) = SeverityOf(vr[j][2])
                      /\ StrLess(vr[i][1], vr[j][1])

\* the seller has a GSTR1 entry for an invoice to the buyer
FiledToBuyer(buyer, seller) ==
    \E i \in DOMAIN db.GSTR1 :
        db.GSTR1[i].Seller_GSTIN = seller /\ db.GSTR1[i].Buyer_GSTIN = buyer

\* the seller has a GSTR3B record with the payment confirmed
PaymentConfirmed(seller) ==
    \E i \in DOMAIN db.GSTR3B :
        db.GSTR3B[i].Seller_GSTIN = seller /\ db.GSTR3B[i].Payment_Confirmed = "Y"

\* C22: in the buyer-scoped views a seller of the buyer carries the HIGH reason
\* for unconfirmed payment exactly when it has a GSTR1 entry for an invoice to
\* this buyer and no GSTR3B record with Payment_Confirmed Y (a seller with
\* GSTR1 filed and no GSTR3B record is flagged, a seller with a record
\* confirmed Y is not).
C22_PaymentNotConfirmed ==
    VendorAnswered =>
        LET vr == VendorRisk(resp)
            sellers == IF resp.kind = "ca_overview" THEN CaSellerGstins(db, resp.gstin)
                       ELSE AllSellerGstins(db, resp.gstin)
            flagged(sg) == \E i \in DOMAIN vr :
                              /\ vr[i][1] = sg
                              /\ \E k \in DOMAIN vr[i][3] :
                                    vr[i][3][k] \in {"GSTR3B payment not confirmed",
                                                     "GSTR1 filed but GSTR3B payment not confirmed"}
        IN \A sg \in sellers :
              flagged(sg) <=> (FiledToBuyer(resp.gstin, sg) /\ ~PaymentConfirmed(sg))

\* the sellers reached from the buyer's GSTR2B rows, and from its
\* Purchase_Register rows through an Invoices document with the row's Invoice_ID
ReachedSellers(buyer) ==
    {db.GSTR2B[i].Seller_GSTIN :
        i \in {k \in DOMAIN db.GSTR2B : /\ db.GSTR2B[k].Buyer_GSTIN = buyer
                                        /\ Truthy(db.GSTR2B[k].Seller_GSTIN)}}
    \cup {db.Invoices[i].Seller_GSTIN :
            i \in {k \in DOMAIN db.Invoices :
                      /\ Truthy(db.Invoices[k].Seller_GSTIN)
                      /\ \E j \in DOMAIN db.Purchase_Register :
                            /\ db.Purchase_Register[j].Buyer_GSTIN = buyer
                            /\ db.Purchase_Register[j].Invoice_ID
                                  = db.Invoices[k].Invoice_ID}}

\* the statuses of the seller's GSTR1 entries addressed to the buyer
StatusesToBuyer(buyer, seller) ==
    {Get(db.GSTR1[i].Status, "NOT FILED") :
        i \in {k \in DOMAIN db.GSTR1 : /\ db.GSTR1[k].Seller_GSTIN = seller
                                       /\ db.GSTR1[k].Buyer_GSTIN = buyer}}

\* the Payment_Confirmed values of the seller's GSTR3B records
PaymentsOf(seller) ==
    {Get(db.GSTR3B[i].Payment_Confirmed, "N") :
        i \in {k \in DOMAIN db.GSTR3B : db.GSTR3B[k].Seller_GSTIN = seller}}

\* the rows of filing_status name the reached sellers once each in ascending
\* order, and each GSTR1_Status is that of an entry addressed to the buyer
FilingRows(fs, buyer) ==
    /\ {fs[i].Seller_GSTIN : i \in DOMAIN fs} = ReachedSellers(buyer)
    /\ \A i, j \in DOMAIN fs :
          i < j => StrLess(fs[i].Seller_GSTIN, fs[j].Seller_GSTIN)
    /\ \A i \in DOMAIN fs :
          /\ IF StatusesToBuyer(buyer, fs[i].Seller_GSTIN) = {}
             THEN fs[i].GSTR1_Status = "NOT FILED"
             ELSE fs[i].GSTR1_Status \in StatusesToBuyer(buyer, fs[i].Seller_GSTIN)
          /\ fs[i].GSTR3B_Payment \in {"YES", "NO"}

\* the Payment_Confirmed of the seller's GSTR3B record that find_one returns
\* (the first in store order), N when the seller has none
RecordedPayment(seller) ==
    LET own == {k \in DOMAIN db.GSTR3B : db.GSTR3B[k].Seller_GSTIN = seller}
    IN IF own = {} THEN "N"
       ELSE Get(db.GSTR3B[CHOOSE k \in own : \A m \in own : k <= m].Payment_Confirmed, "N")

C23_WitnessTwo ==
    /\ resp.kind = "ca_overview" /\ resp.code = 200 /\ resp.gstin = "G1"
    /\ resp.filing_status = <<[Seller_GSTIN |-> "G2", GSTR1_Status |-> "NOT FILED",
                               GSTR3B_Payment |-> "NO"],
                              [Seller_GSTIN |-> "G3", GSTR1_Status |-> "NOT FILED",
                               GSTR3B_Payment |-> "YES"]>>

----------------------------------------------------------------------------
(* routes/graph.py: the audit trail of one invoice                          *)

\* sync_graph with every batch written: the graph a completed run leaves when
\* it starts from graph g0 and the store holds d
Project(g0, d) ==
    LET recs(step) == BuildRecords(d[step], step)
        g1 == Neo4jBatch(g0, "Taxpayers", recs("Taxpayers"))
        g2 == Neo4jBatch(g1, "Invoices", recs("Invoices"))
        g3 == Neo4jBatch(Neo4jBatch(g2, "GSTR1", recs("GSTR1")),
                         "GSTR1_returns", recs("GSTR1"))
        g4 == Neo4jBatch(g3, "GSTR2B", recs("GSTR2B"))
        g5 == LinkQuery(Neo4jBatch(g4, "GSTR3B", recs("GSTR3B")))
        g6 == Neo4jBatch(g5, "EWayBill", recs("EWayBill"))
        g7 == Neo4jBatch(g6, "Purchase_Register", recs("Purchase_Register"))
        \* the steps run one after the other, each on the graph the one before left
        after == <<g1, g2, g3, g4, g5, g6, g7>>
    IN after[Len(after)]

\* the GSTR3B return matched from the seller ((seller)-[:FILED]->(gstr3b))
\* instead of from the GSTR1 return
AuditCypher_from_seller(g, inv_id) ==
    IF inv_id \notin DOMAIN g.Invoice THEN {}
    ELSE LET opt(S) == IF S = {} THEN {Null} ELSE S
             gstr1s == opt({r \in DOMAIN g.Return :
                              /\ <<"REPORTED_IN", inv_id, r>> \in DOMAIN g.rel
                              /\ g.Return[r].type = "GSTR1"})
             gstr3bs == opt({b \in DOMAIN g.Return :
                               /\ g.Return[b].type = "GSTR3B"
                               /\ \E t \in DOMAIN g.Taxpayer :
                                     /\ <<"ISSUED", t, inv_id>> \in DOMAIN g.rel
                                     /\ <<"FILED", t, b>> \in DOMAIN g.rel})
             ewbs == opt({e \in DOMAIN g.EWayBill :
                            <<"HAS_EWAYBILL", inv_id, e>> \in DOMAIN g.rel})
             itcs == opt({t \in DOMAIN g.Taxpayer :
                            <<"CLAIMED_ITC", t, inv_id>> \in DOMAIN g.rel})
         IN {[gstr1_return |-> a, gstr3b_return |-> b, ewaybill |-> e,
              itc_claimed |-> t # Null] : a \in gstr1s, b \in gstr3bs, e \in ewbs, t \in itcs}

\* AUDIT_CYPHER without its LIMIT: one row per combination of the matches of
\* the OPTIONAL MATCHes, a clause without a match contributing null.  A row
\* holds the keys of the nodes it bound.
AuditCypher(g, inv_id) ==
    IF inv_id \notin DOMAIN g.Invoice THEN {}
    ELSE LET opt(S) == IF S = {} THEN {Null} ELSE S
             gstr1s == opt({r \in DOMAIN g.Return :
                              /\ <<"REPORTED_IN", inv_id, r>> \in DOMAIN g.rel
                              /\ g.Return[r].type = "GSTR1"})
             gstr3bs(a) == IF a = Null THEN {Null}
                           ELSE opt({b \in DOMAIN g.Return :
                                       /\ <<"SUMMARIZED_IN", a, b>> \in DOMAIN g.rel
                                       /\ g.Return[b].type = "GSTR3B"})
             ewbs == opt({e \in DOMAIN g.EWayBill :
                            <<"HAS_EWAYBILL", inv_id, e>> \in DOMAIN g.rel})
             itcs == opt({t \in DOMAIN g.Taxpayer :
                            <<"CLAIMED_ITC", t, inv_id>> \in DOMAIN g.rel})
         IN UNION {{[gstr1_return |-> a, gstr3b_return |-> b, ewaybill |-> e,
                     itc_claimed |-> t # Null] : b \in gstr3bs(a), e \in ewbs, t \in itcs} :
                   a \in gstr1s}

\* LIMIT 1 without ORDER BY: any one of the rows; no row when there is none
LimitOne(rows) == IF rows = {} THEN {<<>>} ELSE {<<r>> : r \in rows}

\* One if per group, each deciding on the first group that applies only
AuditFlags_short_circuit(g, graph_rows, itc_eligible) ==
    LET row == IF graph_rows = <<>>
               THEN [gstr1_return |-> Null, gstr3b_return |-> Null, ewaybill |-> Null,
                     itc_claimed |-> FALSE]
               ELSE graph_rows[1]
    IN IF row.gstr1_return = Null THEN <<"GSTR1_NOT_FILED">>
       ELSE IF g.Return[row.gstr1_return].status # "FILED"
       THEN <<"GSTR1_STATUS_" \o g.Return[row.gstr1_return].status>>
       ELSE IF row.gstr3b_return = Null THEN <<"GSTR3B_NOT_FILED">>
       ELSE IF g.Return[row.gstr3b_return].payment_confirmed # "Y"
       THEN <<"GSTR3B_PAYMENT_NOT_CONFIRMED">>
       ELSE IF row.itc_claimed /\ itc_eligible = "NO"
       THEN <<"ITC_MISMATCH_CLAIMED_BUT_NOT_ELIGIBLE">>
       ELSE IF row.ewaybill = Null THEN <<"EWAYBILL_MISSING">> ELSE <<>>

\* audit_invoice: the compliance analysis, flags in the order they are appended
AuditFlags(g, graph_rows, itc_eligible) ==
    LET row == IF graph_rows = <<>>
               THEN [gstr1_return |-> Null, gstr3b_return |-> Null, ewaybill |-> Null,
                     itc_claimed |-> FALSE]
               ELSE graph_rows[1]
        gstr1_filed == row.gstr1_return # Null
        gstr3b_filed == row.gstr3b_return # Null
    IN (IF ~gstr1_filed THEN <<"GSTR1_NOT_FILED">>
        ELSE IF g.Return[row.gstr1_return].status # "FILED"
        THEN <<"GSTR1_STATUS_" \o g.Return[row.gstr1_return].status>> ELSE <<>>)
       \o (IF ~gstr3b_filed THEN <<"GSTR3B_NOT_FILED">>
           ELSE IF g.Return[row.gstr3b_return].payment_confirmed # "Y"
           THEN <<"GSTR3B_PAYMENT_NOT_CONFIRMED">> ELSE <<>>)
       \o (IF row.itc_claimed /\ itc_eligible = "NO"
           THEN <<"ITC_MISMATCH_CLAIMED_BUT_NOT_ELIGIBLE">> ELSE <<>>)
       \o (IF row.ewaybill = Null THEN <<"EWAYBILL_MISSING">> ELSE <<>>)

\* GET /graph/audit/{inv_id}
audit_invoice(g, d, inv_id, graph_rows) ==
    LET raw_invoice == FindOne(FindInvoice(d.Invoices, inv_id))
        gstr2b_entry == FindOne(FindInvoice(d.GSTR2B, inv_id))
        itc_eligible == IF gstr2b_entry = None THEN "UNKNOWN"
                        ELSE Get(gstr2b_entry.ITC_Eligible, "UNKNOWN")
    IN IF graph_rows = <<>> /\ raw_invoice = None
       THEN [kind |-> "audit_invoice", invoice_id |-> inv_id, code |-> 404]
       ELSE [kind |-> "audit_invoice", invoice_id |-> inv_id, code |-> 200,
             graph |-> graph_rows, compliance_flags |-> AuditFlags(g, graph_rows, itc_eligible)]

AuditInvoice ==
    /\ \E inv_id \in {"INV1", "INV2"} :
          \E graph_rows \in LimitOne(AuditCypher(graph, inv_id)) :
              resp' = audit_invoice(graph, db, inv_id, graph_rows)
    /\ UNCHANGED <<ingestion, connections, db, graph, pc, cur, steps, status, runs, prev>>

MaxAuditRows == 1

Feb25 == <<"2026", "02", "25">>

\* the documents of invoice INV1, seller G1, buyer G2
AuditRows ==
    [Taxpayers |-> <<>>,
     Invoices |-> <<InvoiceDoc("INV1", "G1", "G2", NumV(10000000))>>,
     GSTR1 |-> <<Gstr1Doc("G1", "G2", "INV1", "FILED", Jan19),
                 Gstr1Doc("G1", "G2", "INV1", "PENDING", Jan25),
                 Gstr1Doc("G1", "G2", "INV1", "FILED", Feb25)>>,
     GSTR2B |-> <<Gstr2bDoc("INV1", "G2", "G1", "NO", NumV(10000000)),
                  Gstr2bDoc("INV1", "G2", "G1", "YES", NumV(10000000))>>,
     GSTR3B |-> <<Gstr3bDoc("G1", "Jan", "Y"), Gstr3bDoc("G1", "Jan", "N"),
                  Gstr3bDoc("G1", "Feb", "N")>>,
     EWayBill |-> <<EWayBillDoc("EWB1", "INV1")>>,
     Purchase_Register |-> <<PurchaseDoc("G2", "INV1", NumV(10000000))>>]

\* the sequences of at most n members of the sequence rows
RECURSIVE SeqsUpTo(_, _)
SeqsUpTo(rows, n) ==
    IF n = 0 THEN {<<>>}
    ELSE LET less == SeqsUpTo(rows, n - 1)
         IN less \cup {Append(q, rows[i]) : q \in less, i \in DOMAIN rows}

\* every store holding at most n of the rows in each collection
StoresOf(rows, n) ==
    [Taxpayers : SeqsUpTo(rows.Taxpayers, n), Invoices : SeqsUpTo(rows.Invoices, n),
     GSTR1 : SeqsUpTo(rows.GSTR1, n), GSTR2B : SeqsUpTo(rows.GSTR2B, n),
     GSTR3B : SeqsUpTo(rows.GSTR3B, n), EWayBill : SeqsUpTo(rows.EWayBill, n),
     Purchase_Register : SeqsUpTo(rows.Purchase_Register, n)]

InitAudit ==
    /\ db \in StoresOf(AuditRows, MaxAuditRows)
    /\ graph = Project(EmptyGraph, db)
    /\ pc = "done"
    /\ cur = IdleCur
    /\ steps = <<>>
    /\ status = "completed"
    /\ runs = 1
    /\ prev = [graph |-> EmptyGraph, clean |-> FALSE]
    /\ NoConnections
    /\ NoIngestion
    /\ resp = NoResp

SpecAudit == InitAudit /\ [][AuditInvoice]_vars

\* the GSTR1 returns the invoice is reported in, and the GSTR3B returns a
\* GSTR1 return is summarized in
Gstr1ReturnsOf(id) ==
    {r \in DOMAIN graph.Return :
        <<"REPORTED_IN", id, r>> \in DOMAIN graph.rel /\ graph.Return[r].type = "GSTR1"}
Gstr3bReturnsOf(a) ==
    {b \in DOMAIN graph.Return :
        <<"SUMMARIZED_IN", a, b>> \in DOMAIN graph.rel /\ graph.Return[b].type = "GSTR3B"}

FixedFlags == {"GSTR1_NOT_FILED", "GSTR3B_NOT_FILED", "GSTR3B_PAYMENT_NOT_CONFIRMED",
               "ITC_MISMATCH_CLAIMED_BUT_NOT_ELIGIBLE", "EWAYBILL_MISSING"}

\* each group of flags is decided from the graph and the store as the claim
\* says, whatever the other groups are; F is the set of flags of the response
\* to the audit of invoice id
GroupsDecided(F, id) ==
    LET g1s == Gstr1ReturnsOf(id)
        bad == {r \in g1s : graph.Return[r].status # "FILED"}
        g3s == UNION {Gstr3bReturnsOf(a) : a \in g1s}
        g2b == FindOne(FindInvoice(db.GSTR2B, id))
    IN /\ "GSTR1_NOT_FILED" \in F <=> g1s = {}
       /\ F \ FixedFlags \subseteq {"GSTR1_STATUS_" \o graph.Return[r].status : r \in bad}
       /\ (g1s # {} /\ bad = g1s) => F \ FixedFlags # {}
       /\ "GSTR3B_NOT_FILED" \in F => (g1s = {} \/ \E a \in g1s : Gstr3bReturnsOf(a) = {})
       /\ "GSTR3B_NOT_FILED" \notin F => g3s # {}
       /\ "GSTR3B_PAYMENT_NOT_CONFIRMED" \in F =>
              \E b \in g3s : graph.Return[b].payment_confirmed # "Y"
       /\ (g3s # {} /\ \A a \in g1s : Gstr3bReturnsOf(a) # {}
                    /\ \A b \in g3s : graph.Return[b].payment_confirmed # "Y") =>
              "GSTR3B_PAYMENT_NOT_CONFIRMED" \in F
       /\ ~("GSTR3B_NOT_FILED" \in F /\ "GSTR3B_PAYMENT_NOT_CONFIRMED" \in F)
       /\ "ITC_MISMATCH_CLAIMED_BUT_NOT_ELIGIBLE" \in F <=>
              /\ \E t \in DOMAIN graph.Taxpayer : <<"CLAIMED_ITC", t, id>> \in DOMAIN graph.rel
              /\ g2b # None /\ g2b.ITC_Eligible = "NO"
       /\ "EWAYBILL_MISSING" \in F <=>
              ~\E e \in DOMAIN graph.EWayBill : <<"HAS_EWAYBILL", id, e>> \in DOMAIN graph.rel
       /\ Cardinality(F \ FixedFlags) <= 1

\* one outcome per group, as a set of flags
FlagCombinations ==
    {a \cup b \cup c \cup e :
        a \in {{}, {"GSTR1_NOT_FILED"}, {"GSTR1_STATUS_PENDING"}},
        b \in {{}, {"GSTR3B_NOT_FILED"}, {"GSTR3B_PAYMENT_NOT_CONFIRMED"}},
        c \in {{}, {"ITC_MISMATCH_CLAIMED_BUT_NOT_ELIGIBLE"}},
        e \in {{}, {"EWAYBILL_MISSING"}}}

\* some store, projected, has an audit of INV1 that emits exactly the flags of c
PossibleFlags(c) ==
    \E d \in StoresOf(AuditRows, MaxAuditRows) :
        LET g == Project(EmptyGraph, d)
        IN \E rows \in LimitOne(AuditCypher(g, "INV1")) :
              LET r == audit_invoice(g, d, "INV1", rows)
              IN r.code = 200
                 /\ {r.compliance_flags[i] : i \in DOMAIN r.compliance_flags} = c

AuditAnswered == resp.kind = "audit_invoice" /\ resp.code = 200

\* the state in which the statements about what is possible are evaluated
\* (they do not depend on the state): the audit of the empty store
AtEmptyStore == resp.kind = "audit_invoice" /\ resp.invoice_id = "INV1" /\ db = EmptyDb

\* C14 as stated: each group is decided as described, and every combination of
\* one outcome per group is a possible flag set.
C14_AllCombinations ==
    /\ AuditAnswered =>
          GroupsDecided({resp.compliance_flags[i] : i \in DOMAIN resp.compliance_flags},
                        resp.invoice_id)
    /\ AtEmptyStore => \A c \in FlagCombinations : PossibleFlags(c)

\* C14, amended: each group is decided as described, no flag is emitted twice,
\* GSTR1_NOT_FILED never comes without GSTR3B_NOT_FILED (the GSTR3B return is
\* matched through the GSTR1 return), and every combination of one outcome per
\* group that respects this is a possible flag set.
C14_AuditFlags ==
    /\ AuditAnswered =>
          LET F == {resp.compliance_flags[i] : i \in DOMAIN resp.compliance_flags}
          IN /\ GroupsDecided(F, resp.invoice_id)
             /\ Len(resp.compliance_flags) = Cardinality(F)
             /\ "GSTR1_NOT_FILED" \in F => "GSTR3B_NOT_FILED" \in F
    /\ AtEmptyStore =>
          \A c \in FlagCombinations :
              ("GSTR1_NOT_FILED" \in c => "GSTR3B_NOT_FILED" \in c) => PossibleFlags(c)

\* three groups emit a flag and the fourth does not
C14_Witness ==
    /\ AuditAnswered
    /\ resp.compliance_flags = <<"GSTR1_STATUS_PENDING", "GSTR3B_PAYMENT_NOT_CONFIRMED",
                                  "ITC_MISMATCH_CLAIMED_BUT_NOT_ELIGIBLE">>

\* the seller of the invoice has a GSTR3B Return node in the graph
SellerFiledGstr3b(inv_id) ==
    \E t \in DOMAIN graph.Taxpayer, b \in DOMAIN graph.Return :
        /\ <<"ISSUED", t, inv_id>> \in DOMAIN graph.rel
        /\ <<"FILED", t, b>> \in DOMAIN graph.rel
        /\ graph.Return[b].type = "GSTR3B"

\* C28: whenever audit_invoice emits GSTR1_NOT_FILED it emits GSTR3B_NOT_FILED
\* too, the GSTR3B return being reached only through the invoice's GSTR1
\* return; also when the seller of the invoice has a GSTR3B Return node.
C28_FlagDependency ==
    AuditAnswered =>
        LET F == {resp.compliance_flags[i] : i \in DOMAIN resp.compliance_flags}
        IN /\ "GSTR1_NOT_FILED" \in F => "GSTR3B_NOT_FILED" \in F
           /\ "GSTR3B_NOT_FILED" \notin F =>
                 /\ resp.graph # <<>>
                 /\ resp.graph[1].gstr1_return # Null
                 /\ <<"SUMMARIZED_IN", resp.graph[1].gstr1_return,
                      resp.graph[1].gstr3b_return>> \in DOMAIN graph.rel

\* the invoice has no GSTR1 return and its seller has filed a GSTR3B return
C28_Witness ==
    /\ AuditAnswered /\ resp.invoice_id = "INV1"
    /\ db.GSTR1 = <<>>
    /\ SellerFiledGstr3b("INV1")
    /\ \E i, j \in DOMAIN resp.compliance_flags :
          /\ resp.compliance_flags[i] = "GSTR1_NOT_FILED"
          /\ resp.compliance_flags[j] = "GSTR3B_NOT_FILED"

----------------------------------------------------------------------------
(* The graph queries (backend/routes/graph.py) *)

\* (x:Taxpayer)-[:ISSUED]->(i:Invoice)-[:BILLED_TO]->(y:Taxpayer)
Chain(g, x, i, y) ==
    /\ x \in DOMAIN g.Taxpayer /\ i \in DOMAIN g.Invoice /\ y \in DOMAIN g.Taxpayer
    /\ <<"ISSUED", x, i>> \in DOMAIN g.rel
    /\ <<"BILLED_TO", i, y>> \in DOMAIN g.rel

\* collect(DISTINCT i.invoice_id) over the invoices on one side of a circle
InvoicesFromTo(g, x, y) == {i \in DOMAIN g.Invoice : Chain(g, x, i, y)}

\* CIRCLES_CYPHER, MATCH ... WHERE: the (a, b, c) the pattern matches with
\* a.gstin < b.gstin < c.gstin
CircleTriples(g) ==
    LET T == DOMAIN g.Taxpayer
    IN {m \in T \X T \X T :
           /\ StrLess(m[1], m[2]) /\ StrLess(m[2], m[3])
           /\ InvoicesFromTo(g, m[1], m[2]) # {}
           /\ InvoicesFromTo(g, m[2], m[3]) # {}
           /\ InvoicesFromTo(g, m[3], m[1]) # {}}

\* collect(i.invoice_id) without DISTINCT: an invoice once for every match of
\* the rest of the pattern
CirclesCypher_collect_all(g, ord) ==
    LET side(x, y, n) ==
            Concat([k \in DOMAIN SelectSeq(ord, LAMBDA i : Chain(g, x, i, y)) |->
                       Repeat(SelectSeq(ord, LAMBDA i : Chain(g, x, i, y))[k], n)])
        size(x, y) == Cardinality(InvoicesFromTo(g, x, y))
    IN {[gstin_a |-> m[1], gstin_b |-> m[2], gstin_c |-> m[3],
         risk_a |-> g.Taxpayer[m[1]].risk_category,
         risk_b |-> g.Taxpayer[m[2]].risk_category,
         risk_c |-> g.Taxpayer[m[3]].risk_category,
         inv_a_to_b |-> side(m[1], m[2], size(m[2], m[3]) * size(m[3], m[1])),
         inv_b_to_c |-> side(m[2], m[3], size(m[1], m[2]) * size(m[3], m[1])),
         inv_c_to_a |-> side(m[3], m[1], size(m[1], m[2]) * size(m[2], m[3]))] :
            m \in CircleTriples(g)}

\* CIRCLES_CYPHER: one row for each (a, b, c) matched (WITH a, b, c groups the
\* matches), each list the distinct invoices of its side in the order ord in
\* which the matches came; the rows come in no stated order and are held as a set
CirclesCypher(g, ord) ==
    {[gstin_a |-> m[1], gstin_b |-> m[2], gstin_c |-> m[3],
      risk_a |-> g.Taxpayer[m[1]].risk_category,
      risk_b |-> g.Taxpayer[m[2]].risk_category,
      risk_c |-> g.Taxpayer[m[3]].risk_category,
      inv_a_to_b |-> SelectSeq(ord, LAMBDA i : Chain(g, m[1], i, m[2])),
      inv_b_to_c |-> SelectSeq(ord, LAMBDA i : Chain(g, m[2], i, m[3])),
      inv_c_to_a |-> SelectSeq(ord, LAMBDA i : Chain(g, m[3], i, m[1]))] :
         m \in CircleTriples(g)}

\* GET /graph/detect-circles
DetectCircles ==
    /\ \E ord \in SetOrders(DOMAIN graph.Invoice) :
          resp' = [kind |-> "detect_circles",
                   circles_found |-> Cardinality(CirclesCypher(graph, ord)),
                   circles |-> CirclesCypher(graph, ord)]
    /\ UNCHANGED <<ingestion, connections, db, graph, pc, cur, steps, status, runs, prev>>

\* The WHERE that keeps the empty string
ShadowCypher_blank_included(g) ==
    LET T == DOMAIN g.Taxpayer
        rows(f, type) ==
            {[shared_value |-> v, match_type |-> type,
              members |-> {t \in T : g.Taxpayer[t][f] = v},
              cluster_size |-> Cardinality({t \in T : g.Taxpayer[t][f] = v})] :
                v \in {g.Taxpayer[t][f] : t \in {u \in T : g.Taxpayer[u][f] # Null}}}
    IN {r \in rows("ip_address", "IP_ADDRESS") \cup rows("phone", "PHONE") :
            r.cluster_size > 1}

\* SHADOW_CYPHER: for each attribute, one row per value that is neither null
\* nor '' (WITH ... collect groups the taxpayers by the value), kept when more
\* than one taxpayer carries it; members holds the taxpayers' gstin
ShadowCypher(g) ==
    LET T == DOMAIN g.Taxpayer
        rows(f, type) ==
            {[shared_value |-> v, match_type |-> type,
              members |-> {t \in T : g.Taxpayer[t][f] = v},
              cluster_size |-> Cardinality({t \in T : g.Taxpayer[t][f] = v})] :
                v \in {g.Taxpayer[t][f] :
                          t \in {u \in T : g.Taxpayer[u][f] # Null /\ g.Taxpayer[u][f] # ""}}}
    IN {r \in rows("ip_address", "IP_ADDRESS") \cup rows("phone", "PHONE") :
            r.cluster_size > 1}

\* GET /graph/find-shadow-networks
FindShadowNetworks ==
    /\ resp' = [kind |-> "find_shadow_networks",
                networks_found |-> Cardinality(ShadowCypher(graph)),
                networks |-> ShadowCypher(graph)]
    /\ UNCHANGED <<ingestion, connections, db, graph, pc, cur, steps, status, runs, prev>>

MaxInvoices == 3

\* one invoice for each ordered pair of the three taxpayers
CircleRows ==
    {<<"Invoices", InvoiceDoc("INV1", "G1", "G2", NumV(10000000))>>,
     <<"Invoices", InvoiceDoc("INV2", "G2", "G3", NumV(10000000))>>,
     <<"Invoices", InvoiceDoc("INV3", "G3", "G1", NumV(10000000))>>,
     <<"Invoices", InvoiceDoc("INV4", "G2", "G1", NumV(10000000))>>,
     <<"Invoices", InvoiceDoc("INV5", "G3", "G2", NumV(10000000))>>,
     <<"Invoices", InvoiceDoc("INV6", "G1", "G3", NumV(10000000))>>}

\* taxpayers that share an IP address, a phone, both or neither
ShadowRows ==
    {<<"Taxpayers", TaxpayerDoc("G1", "HIGH", "10.0.0.1", "98450")>>,
     <<"Taxpayers", TaxpayerDoc("G2", "LOW", "10.0.0.1", "98450")>>,
     <<"Taxpayers", TaxpayerDoc("G3", "LOW", "10.0.0.1", "")>>,
     <<"Taxpayers", TaxpayerDoc("G3", "LOW", Absent, "98450")>>,
     <<"Taxpayers", TaxpayerDoc("G2", "LOW", "10.0.0.2", Absent)>>}

\* the graph a sync has projected from the store (at most MaxInvoices
\* documents, or a circle with two invoices on its first side)
InitGraph ==
    /\ db \in DbsOf(CircleRows \cup ShadowRows, MaxInvoices)
               \cup {[EmptyDb EXCEPT !.Invoices =
                         <<InvoiceDoc("INV1", "G1", "G2", NumV(10000000)),
                           InvoiceDoc("INV2", "G1", "G2", NumV(10000000)),
                           InvoiceDoc("INV3", "G2", "G3", NumV(10000000)),
                           InvoiceDoc("INV4", "G3", "G1", NumV(10000000))>>]}
    /\ graph = Project(EmptyGraph, db)
    /\ pc = "done"
    /\ cur = IdleCur
    /\ steps = <<>>
    /\ status = Null
    /\ runs = 0
    /\ prev = [graph |-> EmptyGraph, clean |-> FALSE]
    /\ NoConnections
    /\ NoIngestion
    /\ resp = NoResp

SpecGraph == InitGraph /\ [][DetectCircles \/ FindShadowNetworks]_vars

\* X invoices Y, Y invoices Z, Z invoices X
Cycle(g, x, y, z) ==
    /\ x # y /\ y # z /\ z # x
    /\ InvoicesFromTo(g, x, y) # {}
    /\ InvoicesFromTo(g, y, z) # {}
    /\ InvoicesFromTo(g, z, x) # {}

\* the rows that report the cycle x -> y -> z -> x, from any of its three starts
RowsOf(rows, x, y, z) ==
    {r \in rows : <<r.gstin_a, r.gstin_b, r.gstin_c>> \in {<<x, y, z>>, <<y, z, x>>, <<z, x, y>>}}

\* C5: every directed 3-cycle of three distinct taxpayers in the graph, in
\* either orientation, is reported by detect_circular_trading exactly once.
C5_CircleOnce ==
    resp.kind = "detect_circles" =>
        \A x, y, z \in DOMAIN graph.Taxpayer :
            Cycle(graph, x, y, z) => Cardinality(RowsOf(resp.circles, x, y, z)) = 1

\* C29: every row of detect_circular_trading names three distinct taxpayers
\* with gstin_a < gstin_b < gstin_c, no two rows name the same triple however
\* many invoices lie on each side, and each of the three invoice lists of a row
\* is non-empty, holds invoices of its side only and holds none twice.
C29_CircleRows ==
    resp.kind = "detect_circles" =>
        /\ resp.circles_found = Cardinality(resp.circles)
        /\ \A r \in resp.circles :
              /\ {r.gstin_a, r.gstin_b, r.gstin_c} \subseteq DOMAIN graph.Taxpayer
              /\ Cardinality({r.gstin_a, r.gstin_b, r.gstin_c}) = 3
              /\ StrLess(r.gstin_a, r.gstin_b) /\ StrLess(r.gstin_b, r.gstin_c)
              /\ \A q \in resp.circles :
                    <<q.gstin_a, q.gstin_b, q.gstin_c>> = <<r.gstin_a, r.gstin_b, r.gstin_c>>
                       => q = r
              /\ \A side \in {<<r.inv_a_to_b, r.gstin_a, r.gstin_b>>,
                              <<r.inv_b_to_c, r.gstin_b, r.gstin_c>>,
                              <<r.inv_c_to_a, r.gstin_c, r.gstin_a>>} :
                    /\ side[1] # <<>>
                    /\ \A i, j \in DOMAIN side[1] : side[1][i] = side[1][j] => i = j
                    /\ \A i \in DOMAIN side[1] : Chain(graph, side[2], side[1][i], side[3])

\* the circle G1 -> G2 -> G3 -> G1 with two invoices from G1 to G2
C29_Witness ==
    /\ resp.kind = "detect_circles" /\ resp.circles_found = 1
    /\ \E r \in resp.circles :
          /\ <<r.gstin_a, r.gstin_b, r.gstin_c>> = <<"G1", "G2", "G3">>
          /\ r.inv_a_to_b = <<"INV2", "INV1">>
          /\ r.inv_b_to_c = <<"INV3">> /\ r.inv_c_to_a = <<"INV4">>

\* the attribute of the graph a cluster type groups by
ClusterAttr(type) == IF type = "IP_ADDRESS" THEN "ip_address" ELSE "phone"

\* C15: every cluster find_shadow_networks reports has at least 2 members, its
\* members all carry the cluster's shared value in the cluster's attribute,
\* that value is neither absent nor blank, any two taxpayers that share a
\* non-blank IP address (phone) are together in an IP (phone) cluster, and no
\* taxpayer is in two IP clusters or in two phone clusters.
C15_ShadowNetworks ==
    resp.kind = "find_shadow_networks" =>
        LET N == resp.networks
            T == DOMAIN graph.Taxpayer
        IN /\ resp.networks_found = Cardinality(N)
           /\ \A r \in N :
                 /\ r.match_type \in {"IP_ADDRESS", "PHONE"}
                 /\ r.cluster_size = Cardinality(r.members) /\ r.cluster_size >= 2
                 /\ r.shared_value \notin {Null, Absent, ""}
                 /\ \A t \in r.members :
                       t \in T /\ graph.Taxpayer[t][ClusterAttr(r.match_type)] = r.shared_value
           /\ \A type \in {"IP_ADDRESS", "PHONE"}, t, u \in T :
                 (/\ t # u
                  /\ graph.Taxpayer[t][ClusterAttr(type)] = graph.Taxpayer[u][ClusterAttr(type)]
                  /\ graph.Taxpayer[t][ClusterAttr(type)] \notin {Null, Absent, ""}) =>
                     \E r \in N : r.match_type = type /\ {t, u} \subseteq r.members
           /\ \A type \in {"IP_ADDRESS", "PHONE"}, t \in T :
                 Cardinality({r \in N : r.match_type = type /\ t \in r.members}) <= 1

\* three taxpayers share an IP address, two of them share a phone and the
\* third has a blank phone
C15_Witness ==
    /\ resp.kind = "find_shadow_networks"
    /\ resp.networks_found = 2
    /\ \E r \in resp.networks : r.match_type = "IP_ADDRESS" /\ r.members = {"G1", "G2", "G3"}
    /\ \E r \in resp.networks : r.match_type = "PHONE" /\ r.members = {"G1", "G2"}
    /\ graph.Taxpayer["G3"].phone = ""

----------------------------------------------------------------------------
(* routes/inspector_dashboard.py: the combined high-risk vendor list *)

\* a sort on the GSTIN alone
SortVendors_by_gstin(entries) ==
    LET by_gstin == Sorted({e.gstin : e \in entries})
    IN [i \in DOMAIN by_gstin |-> CHOOSE e \in entries : e.gstin = by_gstin[i]]

\* result.sort(key=lambda v: (-len(v["reasons"]), v["gstin"])): a vendor has at
\* most four reasons
SortVendors(entries) ==
    LET by_gstin == Sorted({e.gstin : e \in entries})
        of(v) == CHOOSE e \in entries : e.gstin = v
        with(n) == SelectSeq(by_gstin, LAMBDA v : Len(of(v).reasons) = n)
        order == with(4) \o with(3) \o with(2) \o with(1)
    IN [i \in DOMAIN order |-> of(order[i])]

\* high_risk_vendors: risk_entries collects, per vendor, one reason for each
\* of the four conditions in the order they are tested; a graph read that
\* raises is passed over (except Exception: pass) and adds nothing. A reason
\* is held as the tuple of the parts its text is formatted from. ip_read and
\* circle_read record how the two graph reads ended.
high_risk_vendors(d, g, ip_read, circle_read) ==
    LET gstr1_sellers == {d.GSTR1[i].Seller_GSTIN : i \in DOMAIN d.GSTR1}
        unpaid_sellers == {d.GSTR3B[i].Seller_GSTIN :
                              i \in {j \in DOMAIN d.GSTR3B : d.GSTR3B[j].Payment_Confirmed # "Y"}}
        blocked(sg) == {i \in DOMAIN d.GSTR2B :
                           d.GSTR2B[i].ITC_Eligible = "NO" /\ d.GSTR2B[i].Seller_GSTIN = sg}
        blocked_sellers == {d.GSTR2B[i].Seller_GSTIN :
                               i \in {j \in DOMAIN d.GSTR2B : d.GSTR2B[j].ITC_Eligible = "NO"}}
        ip_clusters == IF ip_read = "ok"
                       THEN {r \in ShadowCypher(g) : r.match_type = "IP_ADDRESS"} ELSE {}
        circular_gstins ==
            IF circle_read = "ok"
            THEN UNION {{m[1], m[2], m[3]} : m \in CircleTriples(g)}
            ELSE {}
        cluster(v) == CHOOSE r \in ip_clusters : v \in r.members
        reasons(v) ==
            (IF v \in gstr1_sellers \cap unpaid_sellers
             THEN <<<<"GSTR1 filed but GSTR3B payment not confirmed">>>> ELSE <<>>)
            \o (IF v \in blocked_sellers
                THEN <<<<"ITC blocked on", Cardinality(blocked(v)), "invoice(s)">>>> ELSE <<>>)
            \o (IF \E r \in ip_clusters : v \in r.members
                THEN <<<<"Shared IP:", cluster(v).shared_value,
                         Cardinality(cluster(v).members), "entities">>>> ELSE <<>>)
            \o (IF v \in circular_gstins
                THEN <<<<"Involved in circular trading">>>> ELSE <<>>)
        risk_entries == (gstr1_sellers \cap unpaid_sellers) \cup blocked_sellers
                            \cup UNION {r.members : r \in ip_clusters} \cup circular_gstins
        named(v) == \E i \in DOMAIN d.Taxpayers : d.Taxpayers[i].GSTIN = v
        entry(v) == [gstin |-> v,
                     name |-> IF named(v) THEN "Acme" ELSE "Unknown",
                     risk_level |-> "HIGH", reasons |-> reasons(v)]
        result == SortVendors({entry(v) : v \in risk_entries})
    IN [kind |-> "high_risk_vendors", ip_read |-> ip_read, circle_read |-> circle_read,
        count |-> Len(result), vendors |-> result]

\* GET /inspector/high-risk
HighRiskVendors ==
    /\ \E ip_read, circle_read \in {"ok", "raised"} :
          resp' = high_risk_vendors(db, graph, ip_read, circle_read)
    /\ UNCHANGED <<ingestion, connections, db, graph, pc, cur, steps, status, runs, prev>>

MaxInspectorDocs == 3

\* three taxpayers trading in a ring, two of them behind one IP address
RingDb ==
    [EmptyDb EXCEPT
        !.Taxpayers = <<TaxpayerDoc("G1", "LOW", "10.0.0.1", Absent),
                        TaxpayerDoc("G2", "LOW", "10.0.0.1", Absent)>>,
        !.Invoices = <<InvoiceDoc("INV1", "G1", "G2", NumV(1000000)),
                       InvoiceDoc("INV2", "G2", "G3", NumV(1000000)),
                       InvoiceDoc("INV3", "G3", "G1", NumV(1000000))>>]

InspectorRows ==
    {<<"GSTR1", Gstr1Doc("G1", "G2", "INV1", "FILED", <<"2026", "01", "19">>)>>,
     <<"GSTR1", Gstr1Doc("G3", "G1", "INV3", "FILED", <<"2026", "01", "19">>)>>,
     <<"GSTR3B", Gstr3bDoc("G1", "Jan", "N")>>,
     <<"GSTR3B", Gstr3bDoc("G3", "Jan", "Y")>>,
     <<"GSTR2B", Gstr2bDoc("INV1", "G2", "G1", "NO", NumV(1000000))>>,
     <<"GSTR2B", Gstr2bDoc("INV2", "G3", "G2", "NO", NumV(1000000))>>,
     <<"GSTR2B", Gstr2bDoc("INV3", "G1", "G3", "YES", NumV(1000000))>>,
     <<"Taxpayers", TaxpayerDoc("G3", "LOW", "10.0.0.1", Absent)>>}

\* the store, with or without the ring, and the graph a sync projected from it
InitInspector ==
    /\ \E base \in {EmptyDb, RingDb}, more \in DbsOf(InspectorRows, MaxInspectorDocs) :
          db = [c \in Collections |-> base[c] \o more[c]]
    /\ graph = Project(EmptyGraph, db)
    /\ pc = "done"
    /\ cur = IdleCur
    /\ steps = <<>>
    /\ status = "completed"
    /\ runs = 1
    /\ prev = [graph |-> EmptyGraph, clean |-> FALSE]
    /\ NoConnections
    /\ NoIngestion
    /\ resp = NoResp

SpecInspector == InitInspector /\ [][HighRiskVendors]_vars

\* the four conditions, read off the store and the graph
UnpaidFiler(v) ==
    /\ \E i \in DOMAIN db.GSTR1 : db.GSTR1[i].Seller_GSTIN = v
    /\ \E i \in DOMAIN db.GSTR3B :
          db.GSTR3B[i].Seller_GSTIN = v /\ db.GSTR3B[i].Payment_Confirmed # "Y"

ItcBlockedSeller(v) ==
    \E i \in DOMAIN db.GSTR2B :
        db.GSTR2B[i].Seller_GSTIN = v /\ db.GSTR2B[i].ITC_Eligible = "NO"

SharesIp(v) ==
    /\ v \in DOMAIN graph.Taxpayer
    /\ graph.Taxpayer[v].ip_address \notin {Null, Absent, ""}
    /\ \E u \in DOMAIN graph.Taxpayer \ {v} :
          graph.Taxpayer[u].ip_address = graph.Taxpayer[v].ip_address

InDetectedCircle(v) ==
    \E m \in CircleTriples(graph) : v \in {m[1], m[2], m[3]}

\* the reasons of a vendor are those of the conditions in C, one each
ListedFor(C) ==
    LET V == resp.vendors
        applies(v) == {c \in {"GSTR1 filed but GSTR3B payment not confirmed",
                               "ITC blocked on", "Shared IP:",
                               "Involved in circular trading"} : C[c][v]}
        all == {"", "G1", "G2", "G3"}
    IN /\ {V[i].gstin : i \in DOMAIN V} = {v \in all : applies(v) # {}}
       /\ \A i, j \in DOMAIN V : V[i].gstin = V[j].gstin => i = j
       /\ \A i \in DOMAIN V :
             /\ {V[i].reasons[k][1] : k \in DOMAIN V[i].reasons} = applies(V[i].gstin)
             /\ Len(V[i].reasons) = Cardinality(applies(V[i].gstin))
       /\ \A i, j \in DOMAIN V :
             i < j => \/ Len(V[i].reasons) > Len(V[j].reasons)
                      \/ /\ Len(V[i].reasons) = Len(V[j].reasons)
                         /\ StrLess(V[i].gstin, V[j].gstin)

----------------------------------------------------------------------------
(* risk_score: the score computed from the record RISK_CYPHER returns *)

Least(a, b) == IF a <= b THEN a ELSE b

RiskScore_medium_heavier(own_risk, high_count, medium_count) ==
    LET base == CASE own_risk = "HIGH" -> 40 [] own_risk = "MEDIUM" -> 20
                  [] own_risk = "LOW" -> 5 [] OTHER -> 10
    IN Least(base + Least(high_count * 5 + medium_count * 15, 60), 100)

\* base = {"HIGH": 40, "MEDIUM": 20, "LOW": 5}.get(own_risk, 10)
\* neighbour_score = min(high_count * 15 + medium_count * 5, 60)
\* score = min(base + neighbour_score, 100)
RiskScore(own_risk, high_count, medium_count) ==
    LET base == CASE own_risk = "HIGH" -> 40 [] own_risk = "MEDIUM" -> 20
                  [] own_risk = "LOW" -> 5 [] OTHER -> 10
        neighbour_score == Least(high_count * 15 + medium_count * 5, 60)
    IN Least(base + neighbour_score, 100)

MaxNeighbours == 5

\* t.risk_category: a category, any other text, or null for a node without one
OwnRisks == {"HIGH", "MEDIUM", "LOW", "UNKNOWN", Null}

\* risk_score, from rec = records[0] on
RiskScoreReturns ==
    /\ resp.kind = "risk_record"
    /\ resp' = [kind |-> "risk_score", own_risk |-> resp.own_risk,
                high_risk_count |-> resp.high_risk_count,
                medium_risk_count |-> resp.medium_risk_count,
                risk_score |-> RiskScore(resp.own_risk, resp.high_risk_count,
                                         resp.medium_risk_count)]
    /\ UNCHANGED <<ingestion, connections, db, graph, pc, cur, steps, status, runs, prev>>

\* gstin_profile: score = min(base + min(hc * 15, 60), 100)
ProfileScore(own, hc) ==
    LET base == CASE own = "HIGH" -> 40 [] own = "MEDIUM" -> 20
                  [] own = "LOW" -> 5 [] OTHER -> 10
    IN Least(base + Least(hc * 15, 60), 100)

\* gstin_profile, from r = rows[0] on: the risk entry of the profile, for the
\* same taxpayer and neighbours as the record of risk_score
GstinProfile ==
    /\ resp.kind = "risk_record"
    /\ resp' = [kind |-> "gstin_profile", own_risk |-> resp.own_risk,
                high_risk_count |-> resp.high_risk_count,
                medium_risk_count |-> resp.medium_risk_count,
                risk |-> [own_risk |-> resp.own_risk,
                          risk_score |-> ProfileScore(resp.own_risk, resp.high_risk_count),
                          high_risk_neighbors |-> resp.high_risk_count]]
    /\ UNCHANGED <<ingestion, connections, db, graph, pc, cur, steps, status, runs, prev>>

\* the record of the subject: its own category and the numbers of its HIGH and
\* MEDIUM neighbours
InitScore ==
    /\ resp \in [kind : {"risk_record"}, own_risk : OwnRisks,
                 high_risk_count : 0..MaxNeighbours,
                 medium_risk_count : 0..MaxNeighbours]
    /\ db = EmptyDb
    /\ graph = EmptyGraph
    /\ pc = "done"
    /\ cur = IdleCur
    /\ steps = <<>>
    /\ status = Null
    /\ runs = 0
    /\ prev = [graph |-> EmptyGraph, clean |-> FALSE]
    /\ NoConnections
    /\ NoIngestion

SpecScore == InitScore /\ [][RiskScoreReturns \/ GstinProfile]_vars

\* C6: the risk score lies in 0..100, and it does not decrease when one
\* neighbour that was LOW (counted in neither number) or MEDIUM becomes HIGH,
\* the subject's category and the other neighbours unchanged.
C6_BoundedMonotone ==
    resp.kind = "risk_score" =>
        LET own == resp.own_risk
            h == resp.high_risk_count
            m == resp.medium_risk_count
        IN /\ resp.risk_score \in 0..100
           /\ RiskScore(own, h + 1, m) >= resp.risk_score
           /\ m > 0 => RiskScore(own, h + 1, m - 1) >= resp.risk_score

\* a score whose neighbour part is capped at 60 and that reaches 100
C6_Witness ==
    /\ resp.kind = "risk_score"
    /\ resp.own_risk = "HIGH"
    /\ resp.high_risk_count = 3 /\ resp.medium_risk_count = 4
    /\ resp.risk_score = 100

\* C30: for the same taxpayer and the same graph the risk_score of
\* gstin_profile equals the risk_score of the risk_score endpoint, that is
\* min(100, base + min(60, 15 * high-risk neighbours + 5 * medium-risk
\* neighbours)) with base 40, 20, 5, 10 for own category HIGH, MEDIUM, LOW, other.
C30_ScoreAgreement ==
    /\ resp.kind = "risk_score" =>
          resp.risk_score = RiskScore(resp.own_risk, resp.high_risk_count,
                                      resp.medium_risk_count)
    /\ resp.kind = "gstin_profile" =>
          resp.risk.risk_score = RiskScore(resp.own_risk, resp.high_risk_count,
                                           resp.medium_risk_count)

\* What does hold of C30: the two scores agree for a taxpayer without
\* MEDIUM neighbours, and the profile's score is never the greater one.
C30_AgreesWithoutMedium ==
    resp.kind = "gstin_profile" =>
        /\ resp.risk.risk_score <= RiskScore(resp.own_risk, resp.high_risk_count,
                                             resp.medium_risk_count)
        /\ resp.medium_risk_count = 0 =>
              resp.risk.risk_score = RiskScore(resp.own_risk, resp.high_risk_count, 0)

----------------------------------------------------------------------------
(* database.py: get_neo4j_driver and close_connections, statement by statement *)

MaxDrivers == 3     \* driver objects created in one behaviour
MaxCloses == 2      \* close_connections calls in one behaviour

\* get_neo4j_driver in thread t. The threads run the function's statements
\* interleaved: the test of the global, GraphDatabase.driver(...), the
\* assignment to the global and the return (which reads the global again) are
\* separate steps, and no lock is held. A driver is named by its position in
\* drivers, None by 0. made is the driver the call created, got the value it
\* returned, during the number of close_connections calls
\* completed when it returned.
get_neo4j_driver(t) ==
    /\ \/ /\ callers[t].pc = "idle"
          /\ callers' = [callers EXCEPT ![t].pc = "test", ![t].made = 0]
          /\ UNCHANGED <<neo4j_driver, drivers>>
       \/ /\ callers[t].pc = "test"
          /\ callers' = [callers EXCEPT ![t].pc =
                            IF neo4j_driver = 0 THEN "create" ELSE "return"]
          /\ UNCHANGED <<neo4j_driver, drivers>>
       \/ /\ callers[t].pc = "create"
          /\ Len(drivers) < MaxDrivers
          /\ drivers' = Append(drivers, [since |-> closer.done, closed |-> FALSE])
          /\ callers' = [callers EXCEPT ![t].pc = "store", ![t].made = Len(drivers) + 1]
          /\ UNCHANGED neo4j_driver
       \/ /\ callers[t].pc = "store"
          /\ neo4j_driver' = callers[t].made
          /\ callers' = [callers EXCEPT ![t].pc = "return"]
          /\ UNCHANGED drivers
       \/ /\ callers[t].pc = "return"
          /\ callers' = [callers EXCEPT ![t].pc = "idle", ![t].got = neo4j_driver,
                                        ![t].during = closer.done]
          /\ UNCHANGED <<neo4j_driver, drivers>>
    /\ UNCHANGED <<ingestion, db, graph, pc, cur, steps, status, runs, prev, resp, closer>>

\* close_connections on the event loop (the Mongo client is left aside): the
\* test of the global, _neo4j_driver.close() and _neo4j_driver = None
close_connections ==
    /\ \/ /\ closer.pc = "idle"
          /\ closer.done < MaxCloses
          /\ closer' = IF neo4j_driver = 0
                       THEN [closer EXCEPT !.done = @ + 1]
                       ELSE [closer EXCEPT !.pc = "close"]
          /\ UNCHANGED <<neo4j_driver, drivers>>
       \/ /\ closer.pc = "close"
          /\ drivers' = [drivers EXCEPT ![neo4j_driver].closed = TRUE]
          /\ closer' = [closer EXCEPT !.pc = "clear"]
          /\ UNCHANGED neo4j_driver
       \/ /\ closer.pc = "clear"
          /\ neo4j_driver' = 0
          /\ closer' = [pc |-> "idle", done |-> closer.done + 1]
          /\ UNCHANGED drivers
    /\ UNCHANGED <<ingestion, db, graph, pc, cur, steps, status, runs, prev, resp, callers>>

InitDriver ==
    /\ db = EmptyDb
    /\ graph = EmptyGraph
    /\ pc = "idle"
    /\ cur = IdleCur
    /\ steps = <<>>
    /\ status = Null
    /\ runs = 0
    /\ prev = [graph |-> EmptyGraph, clean |-> FALSE]
    /\ NoConnections
    /\ NoIngestion
    /\ resp = NoResp

SpecDriver ==
    InitDriver /\ [][(\E t \in Threads : get_neo4j_driver(t)) \/ close_connections]_vars

\* C20: in every interleaving of the callers of get_neo4j_driver at most one
\* driver is created between the process start (or the last close_connections)
\* and the next close_connections, the callers that return in that span all
\* receive that one driver, and when close_connections has returned every
\* driver created before it is closed.
C20_SingleDriver ==
    /\ \A i, j \in DOMAIN drivers : drivers[i].since = drivers[j].since => i = j
    /\ \A t, u \in Threads :
          (/\ callers[t].got # 0 /\ callers[u].got # 0
           /\ callers[t].during = callers[u].during) => callers[t].got = callers[u].got
    /\ closer.pc = "idle" =>
          \A i \in DOMAIN drivers : drivers[i].since < closer.done => drivers[i].closed

\* What does hold of C20: a caller that finds the global set returns it, and
\* the driver the global names is open unless close_connections is about to
\* clear it.
C20_GlobalOpen ==
    neo4j_driver # 0 =>
        /\ neo4j_driver \in DOMAIN drivers
        /\ drivers[neo4j_driver].closed => closer.pc = "clear"

----------------------------------------------------------------------------
(* ingestion.py: ingest_all_files                                           *)

\* sorted(FILES_DIR.iterdir()): two files of the collection GSTR1
AllFiles == <<"GSTR1.csv", "GSTR1.json">>

\* The contents a file takes: two rows, one row, no row (a header only, or an
\* empty array), and bytes that the parser rejects
Contents ==
    {[kind |-> "rows", rows |-> <<Gstr1Doc("G1", "G2", "INV1", "FILED", Jan19),
                                  Gstr1Doc("G1", "G2", "INV2", "FILED", Jan19)>>],
     [kind |-> "rows", rows |-> <<Gstr1Doc("G1", "G2", "INV3", "PENDING", Jan25)>>],
     [kind |-> "rows", rows |-> <<>>],
     [kind |-> "bad", rows |-> <<>>]}

\* _file_hash: the digest of the content (equal digests for equal contents only)
FileHash(raw) == [sha256 |-> raw]

\* _parse_csv / _parse_json: the rows with _source_file and _source_row (from
\* 2 in a CSV file, whose row 1 is the header, from 1 in a JSON array)
ParseFile(raw, f) ==
    [i \in DOMAIN raw.rows |->
        [_source_file |-> f,
         _source_row |-> IF f = "GSTR1.csv" THEN i + 1 ELSE i] @@ raw.rows[i]]

\* one pass of the loop of ingest_all_files over filepath f, from the store d,
\* the log l and the report r
IngestFile(d, l, r, f) ==
    LET raw == files[f]
        content_hash == FileHash(raw)
        existing == f \in DOMAIN l /\ l[f].content_hash = content_hash
        records == ParseFile(raw, f)
        col_name == "GSTR1"
        Detail(st, n) == [file |-> f, collection |-> col_name, status |-> st, records |-> n]
        kept == SelectSeq(d[col_name], LAMBDA doc : doc._source_file # f)
    IN IF existing
       THEN [db |-> d, log |-> l,
             report |-> [r EXCEPT !.files_skipped_unchanged = @ + 1,
                                  !.details = Append(@, Detail("skipped", 0))]]
       ELSE IF raw.kind = "bad"
       THEN [db |-> d, log |-> l,
             report |-> [r EXCEPT !.files_skipped_error = @ + 1,
                                  !.details = Append(@, Detail("error", 0))]]
       ELSE IF records = <<>>
       THEN [db |-> d, log |-> l,
             report |-> [r EXCEPT !.files_skipped_error = @ + 1,
                                  !.details = Append(@, Detail("skipped", 0))]]
       ELSE [db |-> [d EXCEPT ![col_name] = kept \o records],
             log |-> (f :> [content_hash |-> content_hash,
                            records_inserted |-> Len(records)]) @@ l,
             report |-> [r EXCEPT !.files_ingested = @ + 1,
                                  !.details = Append(@, Detail("ingested", Len(records)))]]

RECURSIVE IngestFrom(_, _)
IngestFrom(st, i) ==
    IF i > Len(AllFiles) THEN st
    ELSE IngestFrom(IngestFile(st.db, st.log, st.report, AllFiles[i]), i + 1)

\* ingest_all_files: every file of the directory in sorted order
IngestAllFiles ==
    LET done == IngestFrom([db |-> db, log |-> ingestion_log,
                            report |-> EmptyReport(Len(AllFiles))], 1)
    IN /\ db' = done.db
       /\ ingestion_log' = done.log
       /\ report' = done.report
       /\ UNCHANGED <<connections, files, graph, pc, cur, steps, status, runs, prev, resp>>

\* a file of the directory is rewritten between two runs
EditFile ==
    /\ \E f \in DOMAIN files :
          \E raw \in Contents \ {files[f]} : files' = [files EXCEPT ![f] = raw]
    /\ UNCHANGED <<connections, db, ingestion_log, report, graph, pc, cur, steps,
                   status, runs, prev, resp>>

InitIngest ==
    /\ db = EmptyDb
    /\ graph = EmptyGraph
    /\ pc = "idle"
    /\ cur = IdleCur
    /\ steps = <<>>
    /\ status = Null
    /\ runs = 0
    /\ prev = [graph |-> EmptyGraph, clean |-> FALSE]
    /\ NoConnections
    /\ resp = NoResp
    /\ files \in [{AllFiles[i] : i \in DOMAIN AllFiles} -> Contents]
    /\ ingestion_log = <<>>
    /\ report = EmptyReport(0)

SpecIngest == InitIngest /\ [][IngestAllFiles \/ EditFile]_vars

\* the documents of the collection that came from file f
FromFile(d, f) == SelectSeq(d.GSTR1, LAMBDA doc : doc._source_file = f)

\* the content of f is the one its last successful ingestion recorded
Unchanged(f) ==
    f \in DOMAIN ingestion_log /\ ingestion_log[f].content_hash = FileHash(files[f])

\* the run reports f as skipped because unchanged
SkippedUnchanged(f) ==
    \E i \in DOMAIN report'.details :
        /\ report'.details[i].file = f
        /\ report'.details[i].status = "skipped"
        /\ report'.files_skipped_unchanged > 0

\* every file of the directory has its detail in the report, in order
AllProcessed ==
    /\ Len(report'.details) = Len(AllFiles)
    /\ \A i \in DOMAIN AllFiles : report'.details[i].file = AllFiles[i]

\* C25: a run of ingest_all_files skips a file whose content is unchanged since
\* its last successful ingestion and leaves its documents as they are; for a
\* file whose content changed, a file that parses to zero records or fails to
\* parse included, the collection holds after the run exactly the records of
\* the current version for that _source_file; and every file of the directory
\* is processed whatever happens to the others.
C25_FullReplace ==
    [][IngestAllFiles =>
          /\ AllProcessed
          /\ \A i \in DOMAIN AllFiles :
                LET f == AllFiles[i]
                IN IF Unchanged(f)
                   THEN /\ SkippedUnchanged(f)
                        /\ FromFile(db', f) = FromFile(db, f)
                   ELSE FromFile(db', f) = ParseFile(files[f], f)]_vars

\* What does hold of C25: unchanged files are skipped, a file whose new
\* content has records is replaced by them, and a file that is empty or fails
\* to parse keeps the documents of its previous version.
C25_ReplaceWhenRecords ==
    [][IngestAllFiles =>
          /\ AllProcessed
          /\ \A i \in DOMAIN AllFiles :
                LET f == AllFiles[i]
                IN IF Unchanged(f) \/ ParseFile(files[f], f) = <<>>
                   THEN FromFile(db', f) = FromFile(db, f)
                   ELSE FromFile(db', f) = ParseFile(files[f], f)]_vars

====
